---- MODULE Spec2Model ----
(***************************************************************************)
(* Model of the interview orchestration core of the Mock-Interview backend *)
(* (backend/interview/phases.py, state.py, scoring.py, agents.py and the   *)
(* request handlers of backend/main.py), of the LLM client's retry loop    *)
(* (backend/llm/client.py), the standalone server backend/app.py, the fact *)
(* extractor (backend/memory/extractors.py) and the response cleaner       *)
(* (backend/utils/cleaning.py).                                            *)
(*                                                                         *)
(* Conventions                                                             *)
(*   - a phase is the string value of the InterviewPhase enum; Python's    *)
(*     None is the string "none" where a phase is expected;                *)
(*   - a timedelta / datetime is a whole number of minutes;                *)
(*   - an Optional[float] performance score is an integer number of        *)
(*     1/PerfScale units, None being NoScore.                              *)
(***************************************************************************)
EXTENDS Integers, Sequences, FiniteSets, TLC

(***************************************************************************)
(* Bounds of the model.                                                    *)
(***************************************************************************)
MaxQ == 11
MaxMinutes == 21
MaxPerfTenths == 100
MaxWalk == 8
MaxAnswers == 2
MaxOfflineAnswers == 31
MaxTime == 2
MaxRetries == 3
MaxAppTurns == 6
MaxHits == 2
MaxFailedTurns == 31
MaxTail == 3

(***************************************************************************)
(* State.  Each specification of this module drives one group of          *)
(* variables and leaves the other groups at their idle values.             *)
(***************************************************************************)
VARIABLES
    \* phase catalog and transition policy
    walk, pQ, pT, pPerf, pResult,
    \* scorer
    sPhase, sAnalysis, sResult,
    \* analysis agent
    aAnswerShort, aLLM, aResult,
    \* request layer: the process-wide session, the wall clock and the
    \* outcome of the last request
    current_session, now, response,
    \* environment: whether the LLM server answers during this run
    llm_server,
    \* LLM client: one call of LLMClient.generate
    max_retries, attempts, rPc, slept, llm_response,
    \* single-file implementation (app.py): the global interview state and its clock
    interview_state, app_now,
    \* fact extractor: one call of FactExtractor.extract_facts
    eInput, eFacts,
    \* a whole interview, the session cut down to what the transition policy reads
    tSession, tElapsed,
    \* an audio request in flight: where interview_response stands and the session it holds
    audio_request,
    \* the text handed to ResponseCleaner and what it returned
    cText, cResult

policyVars == <<walk, pQ, pT, pPerf, pResult>>
scoreVars == <<sPhase, sAnalysis, sResult>>
analyzeVars == <<aAnswerShort, aLLM, aResult>>
sessionVars == <<current_session, now, response, llm_server>>
retryVars == <<max_retries, attempts, rPc, slept, llm_response>>
appVars == <<interview_state, app_now>>
extractVars == <<eInput, eFacts>>
turnVars == <<tSession, tElapsed>>
raceVars == <<audio_request>>
cleanVars == <<cText, cResult>>
vars == <<policyVars, scoreVars, analyzeVars, sessionVars, retryVars,
          appVars, extractVars, turnVars, raceVars, cleanVars>>

\* _current_session = None
NoSession == [session_id |-> 0]
NoResponse == [kind |-> "none"]

SessionIdle ==
    /\ current_session = NoSession
    /\ now = 0
    /\ response = NoResponse
    /\ llm_server = "down"

PolicyIdle ==
    /\ walk = <<>>
    /\ pQ = 0
    /\ pT = 0
    /\ pPerf = 0
    /\ pResult = "unset"

ScoreIdle ==
    /\ sPhase = "none"
    /\ sAnalysis = <<>>
    /\ sResult = -1

AnalyzeIdle ==
    /\ aAnswerShort = FALSE
    /\ aLLM = [kind |-> "none"]
    /\ aResult = [status |-> "unset"]

RetryIdle ==
    /\ max_retries = 0
    /\ attempts = <<>>
    /\ rPc = "idle"
    /\ slept = 0
    /\ llm_response = [status |-> "unset"]

AppIdle ==
    /\ interview_state = [phase |-> "none"]
    /\ app_now = 0

ExtractIdle ==
    /\ eInput = [phase |-> "none", contained |-> {}]
    /\ eFacts = [status |-> "idle"]

TurnsIdle ==
    /\ tSession = [phase |-> "none"]
    /\ tElapsed = 0

RaceIdle ==
    /\ audio_request = [pc |-> "idle"]

CleanIdle ==
    /\ cText = <<>>
    /\ cResult = [status |-> "idle"]

(***************************************************************************)
(* Phase catalog: backend/interview/phases.py                              *)
(***************************************************************************)
NonePhase == "none"

InterviewPhase ==
    {"greeting", "introduction", "technical", "behavioral", "situational", "closing", "ended"}

PHASE_ORDER ==
    <<"greeting", "introduction", "technical", "behavioral", "situational", "closing">>

PHASES ==
    [p \in {"greeting", "introduction", "technical", "behavioral", "situational", "closing"} |->
        CASE p = "greeting"     -> [min_questions |-> 1, max_questions |-> 2,  time_limit |-> 2]
          [] p = "introduction" -> [min_questions |-> 3, max_questions |-> 5,  time_limit |-> 5]
          [] p = "technical"    -> [min_questions |-> 5, max_questions |-> 10, time_limit |-> 20]
          [] p = "behavioral"   -> [min_questions |-> 3, max_questions |-> 6,  time_limit |-> 10]
          [] p = "situational"  -> [min_questions |-> 2, max_questions |-> 4,  time_limit |-> 8]
          [] p = "closing"      -> [min_questions |-> 1, max_questions |-> 3,  time_limit |-> 3]]

\* PHASES.get(phase) is None for a phase without an entry.
HasPhaseInfo(phase) == phase \in DOMAIN PHASES

get_phase_info(phase) == PHASES[phase]

\* PHASE_ORDER.index(current), 1-based; 0 stands for the ValueError.
PhaseIndex(current) ==
    IF \E i \in 1..Len(PHASE_ORDER) : PHASE_ORDER[i] = current
    THEN CHOOSE i \in 1..Len(PHASE_ORDER) : PHASE_ORDER[i] = current
    ELSE 0

get_next_phase_Skip(current) ==
    LET idx == PhaseIndex(current) IN
    IF idx = 0 THEN NonePhase
    ELSE IF idx < Len(PHASE_ORDER) - 1 THEN PHASE_ORDER[idx + 2]
    ELSE "ended"

get_next_phase(current) ==
    LET idx == PhaseIndex(current) IN
    IF idx = 0 THEN NonePhase
    ELSE IF idx < Len(PHASE_ORDER) THEN PHASE_ORDER[idx + 1]
    ELSE "ended"

(***************************************************************************)
(* Transition policy: InterviewPhases.should_transition                    *)
(***************************************************************************)
PerfScale == 90
NoScore == -1
StrongThreshold == 765   \* 8.5 in 1/PerfScale units
WeakThreshold == 270     \* 3.0 in 1/PerfScale units

should_transition_NoFloor(phase, questions_asked, time_elapsed, performance_score) ==
    IF ~HasPhaseInfo(phase) THEN FALSE
    ELSE LET info == get_phase_info(phase) IN
         IF questions_asked >= info.max_questions THEN TRUE
         ELSE IF time_elapsed >= info.time_limit THEN TRUE
         ELSE IF performance_score # NoScore
              THEN IF performance_score >= StrongThreshold THEN TRUE
                   ELSE performance_score <= WeakThreshold
                        /\ questions_asked >= info.min_questions + 1
              ELSE FALSE

should_transition_MaxStrict(phase, questions_asked, time_elapsed, performance_score) ==
    IF ~HasPhaseInfo(phase) THEN FALSE
    ELSE LET info == get_phase_info(phase) IN
         IF questions_asked < info.min_questions THEN FALSE
         ELSE IF questions_asked > info.max_questions THEN TRUE
         ELSE IF time_elapsed >= info.time_limit THEN TRUE
         ELSE IF performance_score # NoScore /\ questions_asked >= info.min_questions
              THEN IF performance_score >= StrongThreshold THEN TRUE
                   ELSE performance_score <= WeakThreshold
                        /\ questions_asked >= info.min_questions + 1
              ELSE FALSE

should_transition_NoExtraChance(phase, questions_asked, time_elapsed, performance_score) ==
    IF ~HasPhaseInfo(phase) THEN FALSE
    ELSE LET info == get_phase_info(phase) IN
         IF questions_asked < info.min_questions THEN FALSE
         ELSE IF questions_asked >= info.max_questions THEN TRUE
         ELSE IF time_elapsed >= info.time_limit THEN TRUE
         ELSE IF performance_score # NoScore /\ questions_asked >= info.min_questions
              THEN IF performance_score >= StrongThreshold THEN TRUE
                   ELSE performance_score <= WeakThreshold
              ELSE FALSE

should_transition(phase, questions_asked, time_elapsed, performance_score) ==
    IF ~HasPhaseInfo(phase) THEN FALSE
    ELSE LET info == get_phase_info(phase) IN
         IF questions_asked < info.min_questions THEN FALSE
         ELSE IF questions_asked >= info.max_questions THEN TRUE
         ELSE IF time_elapsed >= info.time_limit THEN TRUE
         ELSE IF performance_score # NoScore /\ questions_asked >= info.min_questions
              THEN IF performance_score >= StrongThreshold THEN TRUE
                   ELSE performance_score <= WeakThreshold
                        /\ questions_asked >= info.min_questions + 1
              ELSE FALSE

(***************************************************************************)
(* Specification of the phase catalog and the transition policy: the       *)
(* catalog is walked from GREETING with get_next_phase, and at every       *)
(* position of the walk the policy is evaluated on inputs drawn at Init.   *)
(***************************************************************************)
PerfVals == {NoScore} \cup {9 * p : p \in 0..MaxPerfTenths}

PolicyInit ==
    /\ walk = <<"greeting">>
    /\ pQ \in 0..MaxQ
    /\ pT \in 0..MaxMinutes
    /\ pPerf \in PerfVals
    /\ pResult = "unset"
    /\ ScoreIdle /\ AnalyzeIdle /\ SessionIdle /\ RetryIdle
    /\ AppIdle /\ ExtractIdle /\ TurnsIdle /\ RaceIdle /\ CleanIdle

WalkNext ==
    /\ Len(walk) < MaxWalk
    /\ walk' = Append(walk, get_next_phase(walk[Len(walk)]))
    /\ pResult' = "unset"
    /\ UNCHANGED <<pQ, pT, pPerf, scoreVars, analyzeVars, sessionVars, retryVars,
                   appVars, extractVars, turnVars, raceVars, cleanVars>>

EvalPolicy ==
    /\ pResult = "unset"
    /\ pResult' = IF should_transition(walk[Len(walk)], pQ, pT, pPerf) THEN "true" ELSE "false"
    /\ UNCHANGED <<walk, pQ, pT, pPerf, scoreVars, analyzeVars, sessionVars, retryVars,
                   appVars, extractVars, turnVars, raceVars, cleanVars>>

PolicyNext == WalkNext \/ EvalPolicy

SpecPolicy == PolicyInit /\ [][PolicyNext]_vars

pPhase == walk[Len(walk)]

\* C1: below the phase's min_questions the policy answers false, whatever
\* the elapsed time and the performance value.
C1_MinFloor ==
    (pResult # "unset" /\ HasPhaseInfo(pPhase) /\ pQ < PHASES[pPhase].min_questions)
        => pResult = "false"

C1_Witness ==
    /\ pResult = "false"
    /\ pPhase = "technical"
    /\ pQ = 4
    /\ pT >= 20
    /\ pPerf = 828

\* C2: in each of the six non-terminal phases the policy answers true once
\* questions_in_phase >= max_questions, whatever the time and performance.
C2_MaxForces ==
    (pResult # "unset" /\ HasPhaseInfo(pPhase) /\ pQ >= PHASES[pPhase].max_questions)
        => pResult = "true"

C2_Witness ==
    /\ pResult = "true"
    /\ pPhase = "closing"
    /\ pQ = 3
    /\ pT = 0
    /\ pPerf = NoScore

\* C3: between min_questions and max_questions the policy answers true
\* exactly when the time limit is reached, or a performance value is given
\* and is >= 8.5, or it is given, is <= 3.0 and q >= min_questions + 1.
C3_Expected ==
    \/ pT >= PHASES[pPhase].time_limit
    \/ (pPerf # NoScore /\ 2 * pPerf >= 17 * PerfScale)
    \/ (pPerf # NoScore /\ pPerf <= 3 * PerfScale /\ pQ >= PHASES[pPhase].min_questions + 1)

C3_MidRange ==
    (/\ pResult # "unset"
     /\ HasPhaseInfo(pPhase)
     /\ PHASES[pPhase].min_questions <= pQ
     /\ pQ < PHASES[pPhase].max_questions)
        => (pResult = "true" <=> C3_Expected)

C3_Witness ==
    /\ pResult = "false"
    /\ pPhase = "technical"
    /\ pQ = 5
    /\ pT = 0
    /\ pPerf = 270

\* C4: walking the catalog from GREETING with get_next_phase visits
\* INTRODUCTION, TECHNICAL, BEHAVIORAL, SITUATIONAL, CLOSING, ENDED in this
\* order, without repeating or skipping a phase.
ExpectedWalk ==
    <<"greeting", "introduction", "technical", "behavioral", "situational", "closing", "ended">>

C4_WalkOrder ==
    \A i \in 1..Len(walk) : i <= Len(ExpectedWalk) => walk[i] = ExpectedWalk[i]

C4_Witness ==
    /\ Len(walk) >= 7
    /\ walk[7] = "ended"

(***************************************************************************)
(* Scorer: backend/interview/scoring.py                                    *)
(*                                                                         *)
(* Weights are in hundredths, a weighted score is in tenths (the code      *)
(* rounds it to one decimal).                                              *)
(***************************************************************************)
MinSubScore == 1
MaxSubScore == 10
DefaultWeightedTenths == 50

SubScores == MinSubScore..MaxSubScore

PHASE_WEIGHTS ==
    [p \in {"greeting", "introduction", "technical", "behavioral", "situational", "closing"} |->
        CASE p = "greeting" ->
                [quality |-> 10, relevance |-> 20, completeness |-> 20,
                 technical_depth |-> 0, communication |-> 50]
          [] p = "introduction" ->
                [quality |-> 20, relevance |-> 25, completeness |-> 25,
                 technical_depth |-> 5, communication |-> 25]
          [] p = "technical" ->
                [quality |-> 15, relevance |-> 20, completeness |-> 20,
                 technical_depth |-> 30, communication |-> 15]
          [] p = "behavioral" ->
                [quality |-> 20, relevance |-> 25, completeness |-> 25,
                 technical_depth |-> 0, communication |-> 30]
          [] p = "situational" ->
                [quality |-> 20, relevance |-> 25, completeness |-> 20,
                 technical_depth |-> 15, communication |-> 20]
          [] p = "closing" ->
                [quality |-> 20, relevance |-> 20, completeness |-> 20,
                 technical_depth |-> 0, communication |-> 40]]

\* round(a / b) of Python 3 for a >= 0, b > 0: to the nearest integer, a tie
\* going to the even neighbour.
RoundDiv(a, b) ==
    LET q == a \div b
        r == a % b
    IN IF 2 * r < b THEN q
       ELSE IF 2 * r > b THEN q + 1
       ELSE IF q % 2 = 0 THEN q ELSE q + 1

\* PHASE_WEIGHTS.get(phase, PHASE_WEIGHTS[InterviewPhase.INTRODUCTION])
WeightsOf(phase) ==
    IF phase \in DOMAIN PHASE_WEIGHTS THEN PHASE_WEIGHTS[phase] ELSE PHASE_WEIGHTS["introduction"]

\* score / weight_sum * 10 rounded to one decimal, as a number of tenths:
\* with weights in hundredths it is 100 * sum(s_i * w_i) / sum(w_i).
calculate_weighted_score(analysis, phase) ==
    LET weights == WeightsOf(phase)
        score == analysis.quality_score * weights.quality
                 + analysis.relevance_score * weights.relevance
                 + analysis.completeness_score * weights.completeness
                 + analysis.technical_depth * weights.technical_depth
                 + analysis.communication_quality * weights.communication
        weight_sum == weights.quality + weights.relevance + weights.completeness
                      + weights.technical_depth + weights.communication
    IN IF weight_sum > 0 THEN RoundDiv(100 * score, weight_sum) ELSE DefaultWeightedTenths

(***************************************************************************)
(* Specification of the scorer: the five sub-scores and the phase are      *)
(* drawn at Init and the weighted score is computed from them.             *)
(***************************************************************************)
ScoreUnset == -1

ScoreInit ==
    /\ sPhase \in InterviewPhase
    /\ sAnalysis \in [quality_score : SubScores, relevance_score : SubScores,
                      completeness_score : SubScores, technical_depth : SubScores,
                      communication_quality : SubScores]
    /\ sResult = ScoreUnset
    /\ PolicyIdle /\ AnalyzeIdle /\ SessionIdle /\ RetryIdle
    /\ AppIdle /\ ExtractIdle /\ TurnsIdle /\ RaceIdle /\ CleanIdle

EvalScore ==
    /\ sResult = ScoreUnset
    /\ sResult' = calculate_weighted_score(sAnalysis, sPhase)
    /\ UNCHANGED <<sPhase, sAnalysis, policyVars, analyzeVars, sessionVars, retryVars,
                   appVars, extractVars, turnVars, raceVars, cleanVars>>

ScoreNext == EvalScore

SpecScore == ScoreInit /\ [][ScoreNext]_vars

\* C10: for every phase weight table and every five sub-scores in 1..10 the
\* weighted score lies in [0, 10], that is in 0..100 tenths.
C10_WeightedInRange ==
    sResult # ScoreUnset => (0 <= sResult /\ sResult <= 100)

(***************************************************************************)
(* Analysis agent: backend/llm/client.py (generate, generate_json),        *)
(* backend/interview/scoring.py (validate_analysis) and                    *)
(* backend/interview/agents.py (AnalysisAgent).                            *)
(*                                                                         *)
(* A reply of the LLM server is one of                                     *)
(*   transport_failure, timeout : _make_request raises, generate catches   *)
(*   empty_text   : the content is blank                                   *)
(*   not_json     : the text between the braces does not parse             *)
(*   no_braces    : no JSON object in the text, cleaned to "{}"            *)
(*   json_object  : a JSON object, field dict                              *)
(* A JSON value read for a score is [kind, n]: kind is missing (no such    *)
(* key), int, float (n in tenths), str_int (a string int() accepts),       *)
(* str_bad, null, list, bool, nan or inf (json.loads reads 1e999 and       *)
(* Infinity as float('inf')).                                              *)
(***************************************************************************)
Raw(kind, n) == [kind |-> kind, n |-> n]
Missing == Raw("missing", 0)

EmptyInfo ==
    [skills |-> <<>>, technologies |-> <<>>, experience_level |-> "",
     confidence_indicator |-> ""]

\* LLMClient.generate: is_valid of the LLMResponse
generate(llm) == [is_valid |-> llm.kind \in {"not_json", "no_braces", "json_object"}]

\* a dict is falsy when it has no key
DictIsEmpty(d) ==
    /\ d.quality_score.kind = "missing"
    /\ d.relevance_score.kind = "missing"
    /\ d.completeness_score.kind = "missing"
    /\ d.technical_depth.kind = "missing"
    /\ d.communication_quality.kind = "missing"
    /\ ~d.has_other_keys

EmptyDict ==
    [quality_score |-> Missing, relevance_score |-> Missing, completeness_score |-> Missing,
     technical_depth |-> Missing, communication_quality |-> Missing, has_other_keys |-> FALSE,
     extracted_info |-> EmptyInfo, suggested_follow_ups |-> <<>>, areas_to_probe |-> <<>>,
     red_flags |-> <<>>, positive_signs |-> <<>>]

\* LLMClient.generate_json / generate_analysis: (parsed, is_valid)
generate_json(llm) ==
    IF ~generate(llm).is_valid THEN [parsed |-> EmptyDict, is_none |-> TRUE, is_valid |-> FALSE]
    ELSE IF llm.kind = "not_json" THEN [parsed |-> EmptyDict, is_none |-> TRUE, is_valid |-> FALSE]
    ELSE IF llm.kind = "no_braces" THEN [parsed |-> EmptyDict, is_none |-> FALSE, is_valid |-> TRUE]
    ELSE [parsed |-> llm.dict, is_none |-> FALSE, is_valid |-> TRUE]

generate_analysis(llm) == generate_json(llm)

\* int(value) of Python: truncation of a float toward zero; the kinds that
\* make it raise are handled by the callers below.
IntOf(v) ==
    IF v.kind = "float"
    THEN IF v.n >= 0 THEN v.n \div 10 ELSE -((-v.n) \div 10)
    ELSE v.n

Max2(a, b) == IF a >= b THEN a ELSE b
Min2(a, b) == IF a <= b THEN a ELSE b

\* the exceptions int(value) raises
IntRaisesCaught(v) == v.kind \in {"str_bad", "null", "list", "nan"}
IntRaisesOverflow(v) == v.kind = "inf"

ClampDefault == 5

\* clamp of validate_analysis: TypeError and ValueError give 5, any other
\* exception of int(value) leaves the function
clamp_NoClamp(v) ==
    IF IntRaisesCaught(v) THEN [raised |-> FALSE, value |-> ClampDefault]
    ELSE IF IntRaisesOverflow(v) THEN [raised |-> TRUE, value |-> 0]
    ELSE [raised |-> FALSE, value |-> IntOf(v)]

clamp(v) ==
    IF IntRaisesCaught(v) THEN [raised |-> FALSE, value |-> ClampDefault]
    ELSE IF IntRaisesOverflow(v) THEN [raised |-> TRUE, value |-> 0]
    ELSE [raised |-> FALSE, value |-> Max2(MinSubScore, Min2(MaxSubScore, IntOf(v)))]

\* analysis_dict.get(key, default)
GetScore(v, default) == IF v.kind = "missing" THEN Raw("int", default) ELSE v

DefaultTechnicalDepth == 3

\* AnswerScorer.validate_analysis
validate_analysis(analysis_dict) ==
    LET q == clamp(GetScore(analysis_dict.quality_score, ClampDefault))
        r == clamp(GetScore(analysis_dict.relevance_score, ClampDefault))
        c == clamp(GetScore(analysis_dict.completeness_score, ClampDefault))
        t == clamp(GetScore(analysis_dict.technical_depth, DefaultTechnicalDepth))
        m == clamp(GetScore(analysis_dict.communication_quality, ClampDefault))
    IN IF q.raised \/ r.raised \/ c.raised \/ t.raised \/ m.raised
       THEN [status |-> "raised"]
       ELSE [status |-> "returned",
             analysis |->
                [quality_score |-> q.value, relevance_score |-> r.value,
                 completeness_score |-> c.value, technical_depth |-> t.value,
                 communication_quality |-> m.value,
                 extracted_info |-> analysis_dict.extracted_info,
                 suggested_follow_ups |-> analysis_dict.suggested_follow_ups,
                 areas_to_probe |-> analysis_dict.areas_to_probe,
                 red_flags |-> analysis_dict.red_flags,
                 positive_signs |-> analysis_dict.positive_signs]]

\* AnalysisAgent._get_default_analysis
get_default_analysis ==
    [quality_score |-> 5, relevance_score |-> 5, completeness_score |-> 5,
     technical_depth |-> 3, communication_quality |-> 5,
     extracted_info |-> [skills |-> <<>>, technologies |-> <<>>,
                         experience_level |-> "unknown", confidence_indicator |-> "medium"],
     suggested_follow_ups |-> <<"Can you tell me more about that?">>,
     areas_to_probe |-> <<"Follow up on previous answer">>,
     red_flags |-> <<>>, positive_signs |-> <<>>]

\* AnalysisAgent.analyze_answer; answer_short is len(answer.strip()) < 5
analyze_answer(answer_short, llm) ==
    IF answer_short THEN [status |-> "returned", analysis |-> get_default_analysis]
    ELSE LET res == generate_analysis(llm) IN
         IF res.is_valid /\ ~res.is_none /\ ~DictIsEmpty(res.parsed)
         THEN validate_analysis(res.parsed)
         ELSE [status |-> "returned", analysis |-> get_default_analysis]

(***************************************************************************)
(* Specification of the analysis agent: the reply of the LLM server and    *)
(* the length class of the answer are drawn at Init.                       *)
(***************************************************************************)
RawScoreVals ==
    {Missing, Raw("int", -3), Raw("int", 7), Raw("int", 11), Raw("float", 79),
     Raw("str_int", 8), Raw("str_bad", 0), Raw("null", 0), Raw("inf", 0)}

FailedReplies ==
    {[kind |-> k] : k \in {"transport_failure", "timeout", "empty_text", "not_json", "no_braces"}}

JsonReplies ==
    {[kind |-> "json_object",
      dict |-> [quality_score |-> q, relevance_score |-> r, completeness_score |-> c,
                technical_depth |-> t, communication_quality |-> m, has_other_keys |-> o,
                extracted_info |-> EmptyInfo, suggested_follow_ups |-> <<>>,
                areas_to_probe |-> <<>>, red_flags |-> <<>>, positive_signs |-> <<>>]] :
        q \in RawScoreVals, r \in RawScoreVals, c \in RawScoreVals,
        t \in RawScoreVals, m \in RawScoreVals, o \in BOOLEAN}

AnalyzeInit ==
    /\ aAnswerShort \in BOOLEAN
    /\ aLLM \in FailedReplies \cup JsonReplies
    /\ aResult = [status |-> "unset"]
    /\ PolicyIdle /\ ScoreIdle /\ SessionIdle /\ RetryIdle
    /\ AppIdle /\ ExtractIdle /\ TurnsIdle /\ RaceIdle /\ CleanIdle

Analyze ==
    /\ aResult.status = "unset"
    /\ aResult' = analyze_answer(aAnswerShort, aLLM)
    /\ UNCHANGED <<aAnswerShort, aLLM, policyVars, scoreVars, sessionVars, retryVars,
                   appVars, extractVars, turnVars, raceVars, cleanVars>>

AnalyzeNext == Analyze

SpecAnalyze == AnalyzeInit /\ [][AnalyzeNext]_vars

\* No usable analysis: the answer is too short, the call failed, or the
\* reply holds no JSON object with at least one key.
NoUsableAnalysis ==
    \/ aAnswerShort
    \/ aLLM.kind # "json_object"
    \/ DictIsEmpty(aLLM.dict)

\* C7: analyze_answer returns an AnswerAnalysis for every outcome of the
\* analyzer call and never raises; without a usable analysis the result is
\* the fixed default analysis.
C7_AnalyzeNeverRaises ==
    aResult.status # "unset" =>
        /\ aResult.status = "returned"
        /\ NoUsableAnalysis => aResult.analysis = get_default_analysis

(***************************************************************************)
(* Session state: backend/interview/state.py (InterviewStateMachine).      *)
(*                                                                         *)
(* A session is a record of the fields of InterviewStateMachine.  Record   *)
(* timestamps and texts are left out of the log entries: a question is     *)
(* known by where it came from (the LLM or an entry of the fallback bank). *)
(***************************************************************************)
NoTime == -1
NoYears == -1
InitialDifficulty == 3
InitialConfidence == 3

\* CandidateProfile()
NewProfile ==
    [skills |-> <<>>, technologies |-> <<>>, experience_years |-> NoYears,
     communication_style |-> "", confidence_level |-> InitialConfidence]

\* InterviewStateMachine.__init__
NewSession(session_id, clock) ==
    [session_id |-> session_id,
     phase |-> "greeting",
     phase_start_time |-> clock,
     start_time |-> clock,
     end_time |-> NoTime,
     questions_asked |-> <<>>,
     answers_received |-> <<>>,
     conversation_history |-> <<>>,
     candidate_profile |-> NewProfile,
     current_topic |-> "none",
     difficulty_level |-> InitialDifficulty,
     red_flags |-> <<>>,
     positive_signs |-> <<>>,
     covered_topics |-> <<>>]

SeqContains(seq, x) == \E i \in 1..Len(seq) : seq[i] = x

\* InterviewStateMachine.add_question; topic "none" is None
add_question(s, question, topic) ==
    [s EXCEPT
        !.questions_asked = Append(@,
            [question |-> question, phase |-> s.phase,
             topic |-> IF topic # "none" THEN topic ELSE s.current_topic,
             difficulty_level |-> s.difficulty_level]),
        !.conversation_history = Append(@, [role |-> "interviewer", phase |-> s.phase]),
        !.covered_topics =
            IF topic # "none" /\ ~SeqContains(@, topic) THEN Append(@, topic) ELSE @]

\* InterviewStateMachine.add_answer
add_answer(s, analysis) ==
    [s EXCEPT
        !.answers_received = Append(@, [analysis |-> analysis, phase |-> s.phase]),
        !.conversation_history = Append(@, [role |-> "candidate", phase |-> s.phase])]

\* InterviewStateMachine.get_phase_question_count
RECURSIVE CountPhase(_, _)
CountPhase(records, target) ==
    IF records = <<>> THEN 0
    ELSE (IF records[1].phase = target THEN 1 ELSE 0) + CountPhase(Tail(records), target)

get_phase_question_count(s) == CountPhase(s.questions_asked, s.phase)

\* InterviewStateMachine.get_phase_time_elapsed
get_phase_time_elapsed(s, clock) == clock - s.phase_start_time

\* AnswerAnalysis.average_score, three times its value: the mean of the
\* quality, relevance and completeness scores.
AverageScore3(analysis) ==
    analysis.quality_score + analysis.relevance_score + analysis.completeness_score

\* answers_received[-3:]
LastThree(seq) ==
    IF Len(seq) <= 3 THEN seq ELSE SubSeq(seq, Len(seq) - 2, Len(seq))

RECURSIVE SumAverage3(_)
SumAverage3(answers) ==
    IF answers = <<>> THEN 0
    ELSE AverageScore3(answers[1].analysis) + SumAverage3(Tail(answers))

\* sum(recent_scores) / len(recent_scores) in 1/PerfScale units, or None
RecentPerformance(s) ==
    LET recent == LastThree(s.answers_received) IN
    IF recent = <<>> THEN NoScore
    ELSE (PerfScale * SumAverage3(recent)) \div (3 * Len(recent))

\* InterviewStateMachine.should_transition_phase
should_transition_phase(s, clock) ==
    IF s.phase = "ended" THEN FALSE
    ELSE should_transition(s.phase, get_phase_question_count(s),
                           get_phase_time_elapsed(s, clock), RecentPerformance(s))

transition_to_next_phase_Twice(s, clock) ==
    LET next_phase == get_next_phase(get_next_phase(s.phase)) IN
    IF next_phase = NonePhase \/ next_phase = "ended"
    THEN [session |-> [s EXCEPT !.phase = "ended", !.end_time = clock], transitioned |-> FALSE]
    ELSE [session |-> [s EXCEPT !.phase = next_phase, !.phase_start_time = clock,
                                !.current_topic = "none"],
          transitioned |-> TRUE]

\* InterviewStateMachine.transition_to_next_phase: the session and the
\* returned flag
transition_to_next_phase(s, clock) ==
    LET next_phase == get_next_phase(s.phase) IN
    IF next_phase = NonePhase \/ next_phase = "ended"
    THEN [session |-> [s EXCEPT !.phase = "ended", !.end_time = clock], transitioned |-> FALSE]
    ELSE [session |-> [s EXCEPT !.phase = next_phase, !.phase_start_time = clock,
                                !.current_topic = "none"],
          transitioned |-> TRUE]

\* InterviewStateMachine.end_interview
end_interview(s, clock) == [s EXCEPT !.phase = "ended", !.end_time = clock]

RECURSIVE AppendNew_NoDedup(_, _)
AppendNew_NoDedup(target, items) ==
    IF items = <<>> THEN target
    ELSE AppendNew_NoDedup(IF items[1] # "" THEN Append(target, items[1]) ELSE target,
                           Tail(items))

RECURSIVE AppendNew(_, _)
\* for x in items: if x and x not in target: target.append(x)
AppendNew(target, items) ==
    IF items = <<>> THEN target
    ELSE AppendNew(IF items[1] # "" /\ ~SeqContains(target, items[1])
                   THEN Append(target, items[1]) ELSE target,
                   Tail(items))

extend_Distinct(target, items) == AppendNew(target, items)

\* target.extend(items)
extend(target, items) == target \o items

YearsOrZero(y) == IF y = NoYears THEN 0 ELSE y

InferYears_JuniorAlways(experience_years, exp_level) ==
    IF exp_level = "senior" /\ YearsOrZero(experience_years) < 5 THEN 8
    ELSE IF exp_level = "mid" /\ YearsOrZero(experience_years) < 3 THEN 4
    ELSE IF exp_level = "junior" THEN 1
    ELSE experience_years

\* the experience level inference of update_profile_from_analysis
InferYears(experience_years, exp_level) ==
    IF exp_level = "senior" /\ YearsOrZero(experience_years) < 5 THEN 8
    ELSE IF exp_level = "mid" /\ YearsOrZero(experience_years) < 3 THEN 4
    ELSE IF exp_level = "junior" /\ experience_years = NoYears THEN 1
    ELSE experience_years

AdjustDifficulty_NoCap(difficulty_level, avg3) ==
    IF avg3 >= 3 * 8 THEN difficulty_level + 1
    ELSE IF avg3 <= 3 * 4 THEN difficulty_level - 1
    ELSE difficulty_level

AdjustDifficulty_Strict(difficulty_level, avg3) ==
    IF avg3 > 3 * 8 THEN Min2(5, difficulty_level + 1)
    ELSE IF avg3 < 3 * 4 THEN Max2(1, difficulty_level - 1)
    ELSE difficulty_level

AdjustDifficulty_LowerAtFive(difficulty_level, avg3) ==
    IF avg3 >= 3 * 8 THEN Min2(5, difficulty_level + 1)
    ELSE IF avg3 <= 3 * 5 THEN Max2(1, difficulty_level - 1)
    ELSE difficulty_level

\* the difficulty adjustment of update_profile_from_analysis; avg3 is three
\* times avg_score
AdjustDifficulty(difficulty_level, avg3) ==
    IF avg3 >= 3 * 8 THEN Min2(5, difficulty_level + 1)
    ELSE IF avg3 <= 3 * 4 THEN Max2(1, difficulty_level - 1)
    ELSE difficulty_level

\* InterviewStateMachine.update_profile_from_analysis
update_profile_from_analysis(s, analysis) ==
    LET extracted == analysis.extracted_info
        profile == s.candidate_profile
        conf == extracted.confidence_indicator
        style ==
            IF analysis.communication_quality >= 7 THEN "clear and articulate"
            ELSE IF analysis.communication_quality <= 4 THEN "needs improvement"
            ELSE profile.communication_style
        confidence ==
            IF conf = "high" THEN 5
            ELSE IF conf = "low" THEN 2
            ELSE profile.confidence_level
    IN [s EXCEPT
            !.candidate_profile =
                [skills |-> AppendNew(profile.skills, extracted.skills),
                 technologies |-> AppendNew(profile.technologies, extracted.technologies),
                 experience_years |->
                    InferYears(profile.experience_years, extracted.experience_level),
                 communication_style |-> style,
                 confidence_level |-> confidence],
            !.red_flags = extend(@, analysis.red_flags),
            !.positive_signs = extend(@, analysis.positive_signs),
            !.difficulty_level =
                AdjustDifficulty(s.difficulty_level, AverageScore3(analysis))]

(***************************************************************************)
(* Question generation: backend/llm/client.py (generate_question),         *)
(* backend/llm/prompts.py (FALLBACK_QUESTIONS) and                         *)
(* backend/interview/agents.py (InterviewerAgent, AgentController).        *)
(*                                                                         *)
(* A reply of the LLM server to a question prompt is transport_failure,    *)
(* timeout, empty_text, invalid_text (the cleaned text fails the           *)
(* interviewer-speech validation) or question_text.                        *)
(***************************************************************************)
\* the keys of FALLBACK_QUESTIONS and of FALLBACK_QUESTIONS["technical"]
FallbackPhases ==
    {"greeting", "introduction", "technical", "behavioral", "situational", "closing"}
FallbackLevels == 1..5

\* ResponseCleaner.clean_interviewer_response: (cleaned, is_valid).  The
\* text is valid unless it is empty or too short after cleaning and holds no
\* question to extract; ANSWER_INDICATORS is read by no function, so a text
\* that gives advice ("you should ...") is cleaned and accepted like a
\* question.
clean_interviewer_response(reply) ==
    IF reply.kind = "question_text" THEN [text |-> "question", is_valid |-> TRUE]
    ELSE IF reply.kind = "advice_text" THEN [text |-> "advice", is_valid |-> TRUE]
    ELSE [text |-> "", is_valid |-> FALSE]

\* LLMClient.generate_question: (cleaned_question, is_valid)
llm_generate_question(reply) ==
    IF ~(reply.kind \in {"invalid_text", "question_text", "advice_text"})
    THEN [question_empty |-> TRUE, is_valid |-> FALSE, text |-> ""]
    ELSE LET r == clean_interviewer_response(reply)
         IN [question_empty |-> r.text = "", is_valid |-> r.is_valid, text |-> r.text]

get_fallback_Level3(phase, difficulty_level) ==
    IF phase = "technical"
    THEN [source |-> "fallback",
          bank |-> IF phase \in FallbackPhases THEN phase ELSE "generic",
          level |-> 3]
    ELSE [source |-> "fallback",
          bank |-> IF phase \in FallbackPhases THEN phase ELSE "generic",
          level |-> 0]

\* InterviewerAgent._get_fallback: the bank entry the question is drawn from
get_fallback(phase, difficulty_level) ==
    IF phase = "technical"
    THEN [source |-> "fallback",
          bank |-> IF phase \in FallbackPhases THEN phase ELSE "generic",
          level |-> IF difficulty_level \in FallbackLevels THEN difficulty_level ELSE 3]
    ELSE [source |-> "fallback",
          bank |-> IF phase \in FallbackPhases THEN phase ELSE "generic",
          level |-> 0]

generate_question_NoFallback(phase, difficulty_level, reply) ==
    IF ~(phase \in FallbackPhases)
    THEN [question |-> [source |-> "closing_remark", bank |-> "none", level |-> 0],
          generator |-> "not_called"]
    ELSE LET r == llm_generate_question(reply) IN
         IF ~r.is_valid \/ r.question_empty
         THEN [question |-> [source |-> "empty", bank |-> "none", level |-> 0],
               generator |-> "failed"]
         ELSE [question |-> [source |-> "llm", bank |-> "none", level |-> 0],
               generator |-> "ok"]

\* InterviewerAgent.generate_question; the source of the question is "llm"
\* for a generated question and "llm_advice" for generated advice
generate_question(phase, difficulty_level, reply) ==
    IF ~(phase \in FallbackPhases)
    THEN [question |-> [source |-> "closing_remark", bank |-> "none", level |-> 0],
          generator |-> "not_called"]
    ELSE LET r == llm_generate_question(reply) IN
         IF ~r.is_valid \/ r.question_empty
         THEN [question |-> get_fallback(phase, difficulty_level), generator |-> "failed"]
         ELSE [question |-> [source |-> IF r.text = "advice" THEN "llm_advice" ELSE "llm",
                             bank |-> "none", level |-> 0],
               generator |-> "ok"]

(***************************************************************************)
(* Memory store: backend/memory/vector_db.py and backend/memory/rag.py.    *)
(* A call finds the store working ("ok"), not initialised ("unavailable")  *)
(* or failing inside the vector database ("raises").                       *)
(***************************************************************************)
MemoryOutcomes == {"ok", "unavailable", "raises"}

store_facts_Propagates(memory, n_facts) ==
    IF memory = "unavailable" \/ n_facts = 0 THEN [raised |-> FALSE, fact_ids |-> 0]
    ELSE IF memory = "raises" THEN [raised |-> TRUE, fact_ids |-> 0]
    ELSE [raised |-> FALSE, fact_ids |-> n_facts]

\* MemoryStore.store_facts: the number of fact ids returned
store_facts(memory, n_facts) ==
    IF memory = "unavailable" \/ n_facts = 0 THEN [raised |-> FALSE, fact_ids |-> 0]
    ELSE IF memory = "raises" THEN [raised |-> FALSE, fact_ids |-> 0]
    ELSE [raised |-> FALSE, fact_ids |-> n_facts]

\* MemoryStore.retrieve_relevant: whether any stored fact is returned; a
\* working store is taken to hold a fact that matches the query
retrieve_relevant(memory) ==
    IF memory = "unavailable" THEN FALSE
    ELSE IF memory = "raises" THEN FALSE
    ELSE TRUE

\* RAGPipeline.store_answer_facts
store_answer_facts(memory, n_facts) ==
    IF n_facts = 0 THEN [raised |-> FALSE, fact_ids |-> 0]
    ELSE store_facts(memory, n_facts)

\* RAGPipeline.get_relevant_context_for_question: "" when no fact is found
get_relevant_context_for_question(memory) ==
    IF retrieve_relevant(memory) THEN "context" ELSE ""

\* an item of a JSON list that is not a string (a number, an object)
NonStrItem == "<not a str>"
IsStr(item) == item # NonStrItem

\* the items kept by `if skill and isinstance(skill, str)`
StrCount(items) == Cardinality({i \in DOMAIN items : IsStr(items[i])})

\* ', '.join(items[:5]) raises TypeError when an item is not a str
JoinRaises(items) == \E i \in DOMAIN items : i <= 5 /\ ~IsStr(items[i])

\* InterviewerAgent.generate_question, the candidate info string: whether
\* building it raises
candidate_info_raises(profile) ==
    JoinRaises(profile.skills) \/ JoinRaises(profile.technologies)

\* FactExtractor.extract_facts and extract_from_analysis: the number of
\* facts; answer_mentions says the words of the answer name a technology
extract_facts(answer_mentions, analysis) ==
    (IF answer_mentions THEN 1 ELSE 0)
      + StrCount(analysis.extracted_info.skills)
      + StrCount(analysis.extracted_info.technologies)

\* AgentController.generate_next_question: the memory lookup yields a context
\* string or "" and the question is generated with it
generate_next_question(phase, difficulty_level, reply, memory) ==
    [rag_context |-> get_relevant_context_for_question(memory)]
      @@ generate_question(phase, difficulty_level, reply)

(***************************************************************************)
(* Request layer: backend/main.py                                          *)
(***************************************************************************)
HasSession == current_session.session_id # 0

\* f"session-{uuid.uuid4().hex[:12]}": an id that differs from the id of the
\* session it replaces
FreshSessionId(previous) == IF previous = 1 THEN 2 ELSE 1

HighInfo ==
    [skills |-> <<"system design">>, technologies |-> <<"python">>,
     experience_level |-> "senior", confidence_indicator |-> "high"]

ScoredDict(score, info, flags, signs) ==
    [quality_score |-> score, relevance_score |-> score, completeness_score |-> score,
     technical_depth |-> score, communication_quality |-> score, has_other_keys |-> TRUE,
     extracted_info |-> info, suggested_follow_ups |-> <<>>, areas_to_probe |-> <<>>,
     red_flags |-> flags, positive_signs |-> signs]

\* replies of the LLM server to an analysis prompt
AnalyzerReplies(server) ==
    IF server = "down" THEN {[kind |-> "transport_failure"]}
    ELSE {[kind |-> "transport_failure"],
          [kind |-> "json_object",
           dict |-> ScoredDict(Raw("int", 9), HighInfo, <<"overconfident">>,
                               <<"concrete examples">>)],
          [kind |-> "json_object",
           dict |-> ScoredDict(Raw("inf", 0), EmptyInfo, <<>>, <<>>)]}

\* the analyzer is asked only about an answer of five characters or more
AnalyzerRepliesFor(answer_short, server) ==
    IF answer_short THEN {[kind |-> "not_called"]} ELSE AnalyzerReplies(server)

\* replies of the LLM server to a question prompt
QuestionReplies(server) ==
    IF server = "down" THEN {[kind |-> "transport_failure"]}
    ELSE {[kind |-> "transport_failure"], [kind |-> "invalid_text"], [kind |-> "question_text"]}

\* AgentController.process_answer, steps 2 and 3: the facts of the answer
\* and of its analysis are extracted and stored; an answer long enough to
\* be analysed is taken to name a technology
extract_and_store(res, answer_short, memory) ==
    IF res.status = "raised" THEN [status |-> "raised"]
    ELSE LET stored == store_answer_facts(memory,
                                          extract_facts(~answer_short, res.analysis))
         IN IF stored.raised THEN [status |-> "raised"]
            ELSE [status |-> "returned", analysis |-> res.analysis,
                  fact_ids |-> stored.fact_ids]

\* AgentController.process_answer: the analysis and the number of fact ids
process_answer(answer_short, areply, memory) ==
    extract_and_store(analyze_answer(answer_short, areply), answer_short, memory)

process_text_response_AskAfterEnd(s, answer_short, areply, qreply, clock, memory) ==
    LET res == process_answer(answer_short, areply, memory) IN
    IF res.status = "raised"
    THEN [session |-> s, kind |-> "http_500", generator |-> "not_called",
          facts_stored |-> 0]
    ELSE LET s1 == add_answer(s, res.analysis)
             s2 == update_profile_from_analysis(s1, res.analysis)
             fire == should_transition_phase(s2, clock)
             tr == transition_to_next_phase(s2, clock)
             s3 == IF fire THEN tr.session ELSE s2
             q == generate_next_question(s3.phase, s3.difficulty_level, qreply, memory)
         IN [session |-> add_question(s3, q.question, "none"),
             kind |-> "ok", generator |-> q.generator, facts_stored |-> res.fact_ids]

\* _process_text_response: the session after the turn and the response
process_text_response(s, answer_short, areply, qreply, clock, memory) ==
    LET res == process_answer(answer_short, areply, memory) IN
    IF res.status = "raised"
    THEN [session |-> s, kind |-> "http_500", generator |-> "not_called",
          facts_stored |-> 0]
    ELSE LET s1 == add_answer(s, res.analysis)
             s2 == update_profile_from_analysis(s1, res.analysis)
             fire == should_transition_phase(s2, clock)
             tr == transition_to_next_phase(s2, clock)
             s3 == IF fire THEN tr.session ELSE s2
         IN IF fire /\ ~tr.transitioned
            THEN [session |-> s3, kind |-> "interview_ended", generator |-> "not_called",
                  facts_stored |-> res.fact_ids]
            ELSE IF candidate_info_raises(s3.candidate_profile)
            THEN [session |-> s3, kind |-> "http_500", generator |-> "not_called",
                  facts_stored |-> 0]
            ELSE LET q == generate_next_question(s3.phase, s3.difficulty_level,
                                                 qreply, memory)
                 IN [session |-> add_question(s3, q.question, "none"),
                     kind |-> "ok", generator |-> q.generator,
                     facts_stored |-> res.fact_ids]

\* the turns the model explores: any number while the LLM server is down,
\* at most MaxAnswers answered turns while it is up
TurnAllowed ==
    IF llm_server = "down"
    THEN Len(current_session.answers_received) < MaxOfflineAnswers
    ELSE Len(current_session.answers_received) < MaxAnswers

SessionInit ==
    /\ current_session = NoSession
    /\ now = 0
    /\ response = NoResponse
    /\ llm_server \in {"up", "down"}
    /\ PolicyIdle /\ ScoreIdle /\ AnalyzeIdle /\ RetryIdle
    /\ AppIdle /\ ExtractIdle /\ TurnsIdle /\ RaceIdle /\ CleanIdle

\* the wall clock advances between requests
Tick ==
    /\ now < MaxTime
    /\ now' = now + 1
    /\ UNCHANGED <<current_session, response, llm_server,
                   policyVars, scoreVars, analyzeVars, retryVars,
                   appVars, extractVars, turnVars, raceVars, cleanVars>>

StartInterview_KeepsSession ==
    /\ \E qreply \in QuestionReplies(llm_server), memory \in MemoryOutcomes :
        LET session == IF HasSession THEN current_session
                       ELSE NewSession(FreshSessionId(current_session.session_id), now)
            greeting == generate_next_question(session.phase, session.difficulty_level,
                                               qreply, memory)
        IN /\ current_session' = add_question(session, greeting.question, "introduction")
           /\ response' = [kind |-> "ok"]
    /\ UNCHANGED <<now, llm_server, policyVars, scoreVars, analyzeVars, retryVars,
                   appVars, extractVars, turnVars, raceVars, cleanVars>>

\* POST /start-interview
StartInterview ==
    /\ \E qreply \in QuestionReplies(llm_server), memory \in MemoryOutcomes :
        LET session == NewSession(FreshSessionId(current_session.session_id), now)
            greeting == generate_next_question(session.phase, session.difficulty_level,
                                               qreply, memory)
        IN /\ current_session' = add_question(session, greeting.question, "introduction")
           /\ response' = [kind |-> "ok"]
    /\ UNCHANGED <<now, llm_server, policyVars, scoreVars, analyzeVars, retryVars,
                   appVars, extractVars, turnVars, raceVars, cleanVars>>

TextResponse_NoEndedCheck ==
    /\ IF ~HasSession
       THEN /\ response' = [kind |-> "http_400"]
            /\ UNCHANGED current_session
       ELSE /\ TurnAllowed
            /\ \E answer_short \in BOOLEAN :
               \E areply \in AnalyzerRepliesFor(answer_short, llm_server),
                  qreply \in QuestionReplies(llm_server), memory \in MemoryOutcomes :
                LET out == process_text_response(current_session, answer_short,
                                                 areply, qreply, now, memory)
                IN /\ current_session' = out.session
                   /\ response' = [kind |-> out.kind]
    /\ UNCHANGED <<now, llm_server, policyVars, scoreVars, analyzeVars, retryVars,
                   appVars, extractVars, turnVars, raceVars, cleanVars>>

\* POST /text-response
TextResponse ==
    /\ IF ~HasSession
       THEN /\ response' = [kind |-> "http_400"]
            /\ UNCHANGED current_session
       ELSE IF current_session.phase = "ended"
       THEN /\ response' = [kind |-> "rejected_ended"]
            /\ UNCHANGED current_session
       ELSE /\ TurnAllowed
            /\ \E answer_short \in BOOLEAN :
               \E areply \in AnalyzerRepliesFor(answer_short, llm_server),
                  qreply \in QuestionReplies(llm_server), memory \in MemoryOutcomes :
                LET out == process_text_response(current_session, answer_short,
                                                 areply, qreply, now, memory)
                IN /\ current_session' = out.session
                   /\ response' = [kind |-> out.kind]
    /\ UNCHANGED <<now, llm_server, policyVars, scoreVars, analyzeVars, retryVars,
                   appVars, extractVars, turnVars, raceVars, cleanVars>>

\* POST /interview-response: the upload is read, transcribed and processed
InterviewResponse ==
    /\ IF ~HasSession
       THEN /\ response' = [kind |-> "http_400"]
            /\ UNCHANGED current_session
       ELSE IF current_session.phase = "ended"
       THEN /\ response' = [kind |-> "rejected_ended"]
            /\ UNCHANGED current_session
       ELSE \E upload \in {"bad_content_type", "transcription_raises", "unclear", "text"} :
            IF upload = "bad_content_type"
            THEN /\ response' = [kind |-> "http_400"]
                 /\ UNCHANGED current_session
            ELSE IF upload = "transcription_raises"
            THEN /\ response' = [kind |-> "transcription_failed"]
                 /\ UNCHANGED current_session
            ELSE IF upload = "unclear"
            THEN /\ response' = [kind |-> "clarification"]
                 /\ UNCHANGED current_session
            ELSE /\ TurnAllowed
                 /\ \E answer_short \in BOOLEAN :
                    \E areply \in AnalyzerRepliesFor(answer_short, llm_server),
                       qreply \in QuestionReplies(llm_server),
                       memory \in MemoryOutcomes :
                     LET out == process_text_response(current_session, answer_short,
                                                      areply, qreply, now, memory)
                     IN /\ current_session' = out.session
                        /\ response' = [kind |-> out.kind]
    /\ UNCHANGED <<now, llm_server, policyVars, scoreVars, analyzeVars, retryVars,
                   appVars, extractVars, turnVars, raceVars, cleanVars>>

\* GET /interview-status
GetInterviewStatus ==
    /\ response' = [kind |-> IF HasSession THEN "status" ELSE "http_400"]
    /\ UNCHANGED <<current_session, now, llm_server,
                   policyVars, scoreVars, analyzeVars, retryVars,
                   appVars, extractVars, turnVars, raceVars, cleanVars>>

\* POST /end-interview
EndInterview ==
    /\ IF ~HasSession
       THEN /\ response' = [kind |-> "http_400"]
            /\ UNCHANGED current_session
       ELSE /\ current_session' = end_interview(current_session, now)
            /\ response' = [kind |-> "ok"]
    /\ UNCHANGED <<now, llm_server, policyVars, scoreVars, analyzeVars, retryVars,
                   appVars, extractVars, turnVars, raceVars, cleanVars>>

(***************************************************************************)
(* Serialization: InterviewStateMachine.to_session                         *)
(***************************************************************************)
\* list(set(items)): the distinct items, in no particular order
ListOfSet(items) == {items[i] : i \in DOMAIN items}

\* the InterviewSession model holds the values it is constructed with
InterviewSession(fields) == fields

to_session_DropsLast(s) ==
    InterviewSession(
        [session_id |-> s.session_id, phase |-> s.phase,
         start_time |-> s.start_time, end_time |-> s.end_time,
         phase_start_time |-> s.phase_start_time,
         questions_asked |-> s.questions_asked,
         answers_received |-> SubSeq(s.answers_received, 1, Len(s.answers_received) - 1),
         conversation_history |-> s.conversation_history,
         candidate_profile |-> s.candidate_profile,
         current_topic |-> s.current_topic,
         difficulty_level |-> s.difficulty_level,
         red_flags |-> ListOfSet(s.red_flags),
         positive_signs |-> ListOfSet(s.positive_signs),
         covered_topics |-> s.covered_topics])

to_session(s) ==
    InterviewSession(
        [session_id |-> s.session_id, phase |-> s.phase,
         start_time |-> s.start_time, end_time |-> s.end_time,
         phase_start_time |-> s.phase_start_time,
         questions_asked |-> s.questions_asked,
         answers_received |-> s.answers_received,
         conversation_history |-> s.conversation_history,
         candidate_profile |-> s.candidate_profile,
         current_topic |-> s.current_topic,
         difficulty_level |-> s.difficulty_level,
         red_flags |-> ListOfSet(s.red_flags),
         positive_signs |-> ListOfSet(s.positive_signs),
         covered_topics |-> s.covered_topics])

(***************************************************************************)
(* Report: AnswerScorer.calculate_overall_scores and get_recommendation,   *)
(* ReportAgent.generate_report and the body built by get_interview_report. *)
(***************************************************************************)
RECURSIVE SumScores(_, _)
SumScores(analyses, field) ==
    IF analyses = <<>> THEN 0
    ELSE analyses[1][field] + SumScores(Tail(analyses), field)

\* round(sum(...) / n, 1) as a number of tenths
RoundedMean(analyses, field) == RoundDiv(10 * SumScores(analyses, field), Len(analyses))

\* AnswerScorer.calculate_overall_scores: the five averages, in tenths
calculate_overall_scores(analyses) ==
    IF analyses = <<>>
    THEN [quality |-> 0, relevance |-> 0, completeness |-> 0,
          technical_depth |-> 0, communication |-> 0]
    ELSE [quality |-> RoundedMean(analyses, "quality_score"),
          relevance |-> RoundedMean(analyses, "relevance_score"),
          completeness |-> RoundedMean(analyses, "completeness_score"),
          technical_depth |-> RoundedMean(analyses, "technical_depth"),
          communication |-> RoundedMean(analyses, "communication_quality")]

StrongHireThreshold == 850
HireThreshold == 700
MaybeThreshold == 550

\* AnswerScorer.get_recommendation; the score is given in hundredths
get_recommendation(overall_weighted) ==
    IF overall_weighted >= StrongHireThreshold THEN "Strong Hire"
    ELSE IF overall_weighted >= HireThreshold THEN "Hire"
    ELSE IF overall_weighted >= MaybeThreshold THEN "Maybe"
    ELSE "No Hire"

\* [a.analysis for a in session.answers_received]
AllAnalyses(s) == [i \in DOMAIN s.answers_received |-> s.answers_received[i].analysis]

\* replies of the LLM server to the report prompt
ReportReplies(server) ==
    IF server = "down" THEN {[kind |-> "transport_failure"]}
    ELSE {[kind |-> "transport_failure"], [kind |-> "not_json"], [kind |-> "no_braces"],
          [kind |-> "json_object", dict |-> [recommendation |-> "Hire"]]}

\* ReportAgent.generate_report: avg_weighted is sum(overall_scores.values())
\* / len(overall_scores), here in hundredths
generate_report(all_analyses, reply) ==
    LET overall_scores == calculate_overall_scores(all_analyses)
        avg_weighted == 2 * (overall_scores.quality + overall_scores.relevance
                               + overall_scores.completeness
                               + overall_scores.technical_depth
                               + overall_scores.communication)
        res == generate_json(reply)
    IN IF res.is_valid /\ ~res.is_none /\ res.parsed # EmptyDict
       THEN [source |-> "llm", recommendation |-> res.parsed.recommendation]
       ELSE [source |-> "template",
             recommendation |-> get_recommendation(avg_weighted),
             fit_score |-> RoundDiv(avg_weighted, 100)]

\* the qa_transcript list of the report
qa_transcript(s) ==
    [i \in 1..Len(s.questions_asked) |->
        [phase |-> s.questions_asked[i].phase,
         question |-> s.questions_asked[i].question,
         answer |-> IF i <= Len(s.answers_received)
                    THEN [present |-> TRUE, record |-> s.answers_received[i]]
                    ELSE [present |-> FALSE]]]

MaxObservations == 10

\* list(set(items))[:10]; the sessions of the model hold fewer than ten
\* distinct strings
FirstDistinct(items) ==
    LET distinct == ListOfSet(items)
    IN IF Cardinality(distinct) <= MaxObservations THEN distinct
       ELSE CHOOSE part \in SUBSET distinct : Cardinality(part) = MaxObservations

\* the observations of the report
observations(s) ==
    [red_flags |-> FirstDistinct(s.red_flags),
     positive_signs |-> FirstDistinct(s.positive_signs),
     difficulty_progression |-> s.difficulty_level]

\* the methods of the MemoryStore class
MemoryStoreMethods == {"store_facts", "retrieve_relevant", "clear_session"}

\* get_interview_report on an active session: the call of
\* memory_store.get_session_summary raises AttributeError when MemoryStore
\* has no such method, and the report body is built after that call
get_interview_report(s, reply) ==
    IF s.answers_received = <<>> THEN [kind |-> "http_400"]
    ELSE LET ai_assessment == generate_report(AllAnalyses(s), reply)
         IN IF ~("get_session_summary" \in MemoryStoreMethods)
            THEN [kind |-> "http_500"]
            ELSE [kind |-> "report",
                  candidate_assessment |-> ai_assessment,
                  qa_transcript |-> qa_transcript(s),
                  observations |-> observations(s)]

\* GET /interview-report
GetInterviewReport ==
    /\ IF ~HasSession
       THEN response' = [kind |-> "http_400"]
       ELSE \E reply \in ReportReplies(llm_server) :
                response' = [kind |-> get_interview_report(current_session, reply).kind]
    /\ UNCHANGED <<current_session, now, llm_server,
                   policyVars, scoreVars, analyzeVars, retryVars,
                   appVars, extractVars, turnVars, raceVars, cleanVars>>

\* POST /reset-interview
ResetInterview ==
    /\ current_session' = NoSession
    /\ response' = [kind |-> "ok"]
    /\ UNCHANGED <<now, llm_server, policyVars, scoreVars, analyzeVars, retryVars,
                   appVars, extractVars, turnVars, raceVars, cleanVars>>

Next ==
    \/ Tick
    \/ StartInterview
    \/ TextResponse
    \/ InterviewResponse
    \/ GetInterviewStatus
    \/ EndInterview
    \/ GetInterviewReport
    \/ ResetInterview

Init == SessionInit

Spec == Init /\ [][Next]_vars

(***************************************************************************)
(* Properties of the request layer and the session, checked under Spec.    *)
(***************************************************************************)
\* position of a phase in the fixed order GREETING .. ENDED
PhaseRank(p) == CHOOSE i \in 1..Len(ExpectedWalk) : ExpectedWalk[i] = p

\* the step keeps the same session
SameSession ==
    /\ HasSession
    /\ current_session'.session_id = current_session.session_id

\* C5, as stated: every change of a session's phase goes from a phase to its
\* immediate successor in the fixed order.
C5_SuccessorOnly ==
    [][SameSession /\ current_session'.phase # current_session.phase
        => PhaseRank(current_session'.phase) = PhaseRank(current_session.phase) + 1]_vars

\* C5, amended: every change of a session's phase goes from a phase to its
\* immediate successor in the fixed order, or, by the end-interview
\* operation, from any phase before ENDED directly to ENDED; the phase never
\* moves backward and never re-enters a visited phase.
C5_SuccessorOrEarlyEnd ==
    [][SameSession /\ current_session'.phase # current_session.phase
        => \/ PhaseRank(current_session'.phase) = PhaseRank(current_session.phase) + 1
           \/ /\ EndInterview
              /\ current_session'.phase = "ended"
              /\ PhaseRank(current_session.phase) < PhaseRank("ended")]_vars

\* a session that advanced from GREETING to INTRODUCTION by the policy and
\* was then ended early
C5_Witness ==
    /\ HasSession
    /\ current_session.phase = "ended"
    /\ current_session.answers_received # <<>>
    /\ current_session.questions_asked[Len(current_session.questions_asked)].phase
         = "introduction"

C6_FailedReplies ==
    {[kind |-> "transport_failure"], [kind |-> "timeout"],
     [kind |-> "empty_text"], [kind |-> "invalid_text"]}

\* C6: a turn on a session that has not ended, during which the question
\* generator fails, completes with a question drawn from the fallback bank;
\* exactly one answer and exactly one question are appended, and the phase
\* advances by zero or one step.  A turn that ends the interview appends
\* one answer and no question.
C6_GeneratorFailureTurn ==
    (HasSession /\ current_session.phase # "ended") =>
        \A answer_short \in BOOLEAN :
        \A areply \in AnalyzerRepliesFor(answer_short, llm_server),
           qreply \in C6_FailedReplies, memory \in MemoryOutcomes :
            LET out == process_text_response(current_session, answer_short,
                                             areply, qreply, now, memory)
                advance == PhaseRank(out.session.phase) - PhaseRank(current_session.phase)
                answers == Len(out.session.answers_received)
                              - Len(current_session.answers_received)
                questions == Len(out.session.questions_asked)
                                - Len(current_session.questions_asked)
            IN /\ out.generator = "failed" =>
                    /\ out.kind = "ok"
                    /\ answers = 1
                    /\ questions = 1
                    /\ out.session.questions_asked[Len(out.session.questions_asked)]
                           .question.source = "fallback"
                    /\ advance \in {0, 1}
               /\ out.kind = "interview_ended" =>
                    /\ answers = 1
                    /\ questions = 0
                    /\ advance = 1

\* a completed turn whose question came from the fallback bank
C6_Witness ==
    /\ HasSession
    /\ response.kind = "ok"
    /\ current_session.answers_received # <<>>
    /\ Len(current_session.questions_asked) = Len(current_session.answers_received) + 1
    /\ current_session.questions_asked[Len(current_session.questions_asked)]
           .question.source = "fallback"

\* C8: submitting an answer (text or audio) to a session whose phase is
\* ENDED, and submit, status, end-interview or report without a session, is
\* answered by a rejection (the interview-ended message, HTTP 400) and
\* leaves the session and its logs as they were.
C8_Rejected ==
    [][/\ (/\ HasSession /\ current_session.phase = "ended"
           /\ (TextResponse \/ InterviewResponse))
          => /\ response'.kind = "rejected_ended"
             /\ current_session' = current_session
       /\ (/\ ~HasSession
           /\ (TextResponse \/ InterviewResponse \/ GetInterviewStatus
                 \/ EndInterview \/ GetInterviewReport))
          => /\ response'.kind = "http_400"
             /\ current_session' = NoSession]_vars

\* an answer was refused by a session that has ended after at least one turn
C8_Witness ==
    /\ HasSession
    /\ current_session.phase = "ended"
    /\ current_session.answers_received # <<>>
    /\ response.kind = "rejected_ended"

\* C9: once the phase of a session is ENDED, submit answer, end interview,
\* get status and get report leave every field of the session unchanged.
C9_EndedReadOnly ==
    [][/\ HasSession /\ current_session.phase = "ended"
       /\ (TextResponse \/ InterviewResponse \/ EndInterview
             \/ GetInterviewStatus \/ GetInterviewReport)
       => current_session' = current_session]_vars

\* C11: when the five sub-scores all equal the same value s in 1..10, the
\* weighted score is s for every phase, that is 10 * s tenths (8.0 for the
\* TECHNICAL weights and sub-scores of 8).
C11_UniformScore ==
    (/\ sResult # ScoreUnset
     /\ \E v \in SubScores :
          /\ sAnalysis.quality_score = v
          /\ sAnalysis.relevance_score = v
          /\ sAnalysis.completeness_score = v
          /\ sAnalysis.technical_depth = v
          /\ sAnalysis.communication_quality = v)
    => sResult = 10 * sAnalysis.quality_score

(***************************************************************************)
(* Specification of the profile updates: a new session receives any        *)
(* sequence of update_profile_from_analysis calls, with analyses whose     *)
(* sub-scores are in 1..10 and whose extracted_info names skills and       *)
(* technologies in different spellings, repeated or empty.                 *)
(***************************************************************************)
\* (quality, relevance, completeness): means of 1, 4, 4 1/3, 7 2/3 and 8
ProfileScoreTriples ==
    {<<1, 1, 1>>, <<4, 4, 4>>, <<4, 4, 5>>, <<5, 8, 10>>, <<8, 8, 8>>}

\* (communication_quality, confidence_indicator)
ProfileManners == {<<4, "low">>, <<5, "medium">>, <<7, "high">>}

\* (skills, technologies) of extracted_info
ProfileMentions ==
    {<<<<>>, <<>>>>,
     <<<<"go", "go">>, <<"SQL", "sql">>>>,
     <<<<"Go", "go", "">>, <<"sql", "sql">>>>}

ExperienceLevels == {"senior", "mid", "junior", "unknown"}

ProfileAnalyses ==
    {[quality_score |-> t[1], relevance_score |-> t[2], completeness_score |-> t[3],
      technical_depth |-> 5, communication_quality |-> m[1],
      extracted_info |-> [skills |-> x[1], technologies |-> x[2],
                          experience_level |-> e, confidence_indicator |-> m[2]],
      suggested_follow_ups |-> <<>>, areas_to_probe |-> <<>>,
      red_flags |-> <<>>, positive_signs |-> <<>>] :
        t \in ProfileScoreTriples, m \in ProfileManners, x \in ProfileMentions,
        e \in ExperienceLevels}

ProfileInit ==
    /\ current_session = NewSession(1, 0)
    /\ now = 0
    /\ response = NoResponse
    /\ llm_server = "down"
    /\ PolicyIdle /\ ScoreIdle /\ AnalyzeIdle /\ RetryIdle
    /\ AppIdle /\ ExtractIdle /\ TurnsIdle /\ RaceIdle /\ CleanIdle

UpdateProfile ==
    /\ \E analysis \in ProfileAnalyses :
        current_session' = update_profile_from_analysis(current_session, analysis)
    /\ UNCHANGED <<now, response, llm_server, policyVars, scoreVars, analyzeVars, retryVars,
                   appVars, extractVars, turnVars, raceVars, cleanVars>>

ProfileNext == UpdateProfile

SpecProfile == ProfileInit /\ [][ProfileNext]_vars

AbsDiff(a, b) == IF a >= b THEN a - b ELSE b - a

\* C12: after any sequence of profile updates the difficulty level is one
\* of 1..5; it starts at 3 and an update changes it by at most 1.
C12_DifficultyRange ==
    /\ NewSession(1, 0).difficulty_level = 3
    /\ current_session.difficulty_level \in 1..5
    /\ \A analysis \in ProfileAnalyses :
         AbsDiff(update_profile_from_analysis(current_session, analysis).difficulty_level,
                 current_session.difficulty_level) <= 1

\* low answers have brought the difficulty down to its floor
C12_Witness ==
    /\ current_session.difficulty_level = 1
    /\ current_session.candidate_profile.communication_style = "needs improvement"

NoDuplicates(seq) ==
    \A i, j \in 1..Len(seq) : seq[i] = seq[j] => i = j

\* C13: after any sequence of profile updates neither the skills list nor
\* the technologies list of the profile holds an entry twice (compared
\* exactly, case-sensitively), also when one analysis repeats an entry.
C13_NoDuplicates ==
    /\ NoDuplicates(current_session.candidate_profile.skills)
    /\ NoDuplicates(current_session.candidate_profile.technologies)
    /\ \A analysis \in ProfileAnalyses :
         LET after == update_profile_from_analysis(current_session, analysis).candidate_profile
         IN /\ NoDuplicates(after.skills)
            /\ NoDuplicates(after.technologies)

\* both spellings of a skill and of a technology are in the profile
C13_Witness ==
    /\ Len(current_session.candidate_profile.skills) = 2
    /\ Len(current_session.candidate_profile.technologies) = 2

\* C14: an update with avg, the mean of quality, relevance and completeness,
\* sets the difficulty to min(5, d + 1) if avg >= 8, to max(1, d - 1) if
\* avg <= 4, and leaves it unchanged for 4 < avg < 8.
C14_DifficultyRule ==
    \A analysis \in ProfileAnalyses :
        LET d == current_session.difficulty_level
            total == analysis.quality_score + analysis.relevance_score
                     + analysis.completeness_score
            after == update_profile_from_analysis(current_session, analysis).difficulty_level
        IN /\ total >= 24 => after = (IF d + 1 > 5 THEN 5 ELSE d + 1)
           /\ total <= 12 => after = (IF d - 1 < 1 THEN 1 ELSE d - 1)
           /\ (12 < total /\ total < 24) => after = d

\* strong answers have brought the difficulty up to its ceiling
C14_Witness ==
    /\ current_session.difficulty_level = 5
    /\ current_session.candidate_profile.communication_style = "clear and articulate"

\* C15: over any sequence of updates experience_years never decreases and
\* never returns to unset: senior sets 8 when it is unset or below 5, mid
\* sets 4 when it is unset or below 3, junior sets 1 only when it is unset,
\* and nothing else changes it.
C15_ExperienceMonotone ==
    \A analysis \in ProfileAnalyses :
        LET before == current_session.candidate_profile.experience_years
            level == analysis.extracted_info.experience_level
            after == update_profile_from_analysis(current_session, analysis)
                        .candidate_profile.experience_years
        IN /\ before # NoYears => (after # NoYears /\ after >= before)
           /\ after =
                (IF level = "senior" /\ (before = NoYears \/ before < 5) THEN 8
                 ELSE IF level = "mid" /\ (before = NoYears \/ before < 3) THEN 4
                 ELSE IF level = "junior" /\ before = NoYears THEN 1
                 ELSE before)

\* a profile whose experience was set to 4 years by a mid indication
C15_Witness ==
    /\ current_session.candidate_profile.experience_years = 4
    /\ current_session.candidate_profile.skills # <<>>

\* the sub-scores of the analysis that add_answer stores for a turn
StoredAnalysis(analysis) ==
    LET s == add_answer(NewSession(1, 0), analysis)
    IN s.answers_received[Len(s.answers_received)].analysis

\* C16: every analysis stored in the answer log has its five sub-scores in
\* 1..10, whatever raw values the analyzer returned (out of range, not a
\* number, missing).
C16_StoredScoresClamped ==
    aResult.status = "returned" =>
        LET a == StoredAnalysis(aResult.analysis)
        IN /\ a.quality_score \in 1..10
           /\ a.relevance_score \in 1..10
           /\ a.completeness_score \in 1..10
           /\ a.technical_depth \in 1..10
           /\ a.communication_quality \in 1..10

\* an analysis built from a score above the range, one below it, one that
\* is not a number and one that is missing
C16_Witness ==
    /\ aResult.status = "returned"
    /\ ~aAnswerShort
    /\ aLLM.kind = "json_object"
    /\ aLLM.dict.quality_score = Raw("int", 11)
    /\ aLLM.dict.relevance_score = Raw("int", -3)
    /\ aLLM.dict.completeness_score = Raw("str_bad", 0)
    /\ aLLM.dict.technical_depth = Missing
    /\ aResult.analysis.quality_score = 10
    /\ aResult.analysis.relevance_score = 1
    /\ aResult.analysis.completeness_score = 5
    /\ aResult.analysis.technical_depth = 3

RECURSIVE AnswersOfPhase(_, _)
AnswersOfPhase(answers, phase) ==
    IF answers = <<>> THEN <<>>
    ELSE (IF answers[1].phase = phase THEN <<answers[1]>> ELSE <<>>)
         \o AnswersOfPhase(Tail(answers), phase)

\* the mean average_score of at most the last three answers given in the
\* current phase, in 1/PerfScale units
PhasePerformance(s) ==
    LET recent == LastThree(AnswersOfPhase(s.answers_received, s.phase)) IN
    IF recent = <<>> THEN NoScore
    ELSE (PerfScale * SumAverage3(recent)) \div (3 * Len(recent))

\* C17: the performance that a turn passes to the transition policy is the
\* mean score of at most the last three answers given in the current phase;
\* answers of earlier phases do not contribute.
C17_PerformanceOfCurrentPhase ==
    (HasSession /\ current_session.phase # "ended") =>
        \A answer_short \in BOOLEAN :
        \A areply \in AnalyzerRepliesFor(answer_short, llm_server) :
            LET res == analyze_answer(answer_short, areply) IN
            res.status = "returned" =>
                LET recorded == update_profile_from_analysis(
                                    add_answer(current_session, res.analysis), res.analysis)
                IN RecentPerformance(recorded) = PhasePerformance(recorded)

\* C18: on the turn in which the transition policy fires while the phase is
\* CLOSING, the phase becomes ENDED, end_time is set, the answer is
\* recorded, no question is appended and the result reports
\* interview_ended.
C18_ClosingTurnEnds ==
    (HasSession /\ current_session.phase = "closing") =>
        \A answer_short \in BOOLEAN :
        \A areply \in AnalyzerRepliesFor(answer_short, llm_server),
           qreply \in QuestionReplies(llm_server), memory \in MemoryOutcomes :
            LET res == analyze_answer(answer_short, areply)
                out == process_text_response(current_session, answer_short,
                                             areply, qreply, now, memory)
            IN (/\ res.status = "returned"
                /\ should_transition_phase(
                       update_profile_from_analysis(
                           add_answer(current_session, res.analysis), res.analysis), now))
               => /\ out.session.phase = "ended"
                  /\ out.session.end_time = now
                  /\ out.session.end_time # NoTime
                  /\ Len(out.session.answers_received)
                       = Len(current_session.answers_received) + 1
                  /\ out.session.answers_received[Len(out.session.answers_received)]
                       = [analysis |-> res.analysis, phase |-> "closing"]
                  /\ out.session.questions_asked = current_session.questions_asked
                  /\ out.kind = "interview_ended"

\* an interview that the policy ended on a CLOSING turn
C18_Witness ==
    /\ HasSession
    /\ current_session.phase = "ended"
    /\ response.kind = "interview_ended"
    /\ current_session.end_time # NoTime
    /\ current_session.answers_received[Len(current_session.answers_received)].phase
         = "closing"
    /\ Len(current_session.questions_asked) = Len(current_session.answers_received)

\* for every phase before ENDED, every difficulty in 1..5 and every failing
\* reply, generate_question yields the bank entry of that phase (and of that
\* difficulty in TECHNICAL)
C19_BankComplete ==
    \A phase \in {PHASE_ORDER[i] : i \in 1..Len(PHASE_ORDER)}, d \in 1..5,
       reply \in C6_FailedReplies :
        generate_question(phase, d, reply).question
          = [source |-> "fallback", bank |-> phase,
             level |-> IF phase = "technical" THEN d ELSE 0]

\* C19: whenever the generated question is empty or invalid or the
\* generator call fails, the question recorded for the turn is drawn from
\* the fallback bank entry of the session's phase, and in TECHNICAL from
\* the entry of the session's difficulty level; the bank has an entry for
\* every phase before ENDED and every difficulty in 1..5, so the generic
\* default is never used.
C19_FallbackOfPhase ==
    /\ C19_BankComplete
    /\ HasSession =>
         \A i \in 1..Len(current_session.questions_asked) :
             LET record == current_session.questions_asked[i] IN
             record.question.source = "fallback" =>
                /\ record.question.bank = record.phase
                /\ record.question.level
                     = (IF record.phase = "technical" THEN record.difficulty_level ELSE 0)

\* a TECHNICAL question was drawn from the fallback bank
C19_Witness ==
    /\ HasSession
    /\ current_session.phase = "technical"
    /\ LET record == current_session.questions_asked[Len(current_session.questions_asked)]
       IN /\ record.phase = "technical"
          /\ record.question = [source |-> "fallback", bank |-> "technical",
                                level |-> current_session.difficulty_level]

\* a reply of the question generator that gives advice ("you should ...")
AdviceReply == [kind |-> "advice_text"]

\* C20: when the text returned by the question generator gives advice
\* instead of asking a question, the generator result is not ok and the
\* question recorded for the turn is drawn from the fallback bank, never
\* the generated advice.
C20_AdviceRejected ==
    (HasSession /\ current_session.phase # "ended") =>
        \A answer_short \in BOOLEAN :
        \A areply \in AnalyzerRepliesFor(answer_short, llm_server),
           memory \in MemoryOutcomes :
            LET out == process_text_response(current_session, answer_short,
                                             areply, AdviceReply, now, memory)
            IN out.kind = "ok" =>
                 /\ ~llm_generate_question(AdviceReply).is_valid
                 /\ out.generator = "failed"
                 /\ out.session.questions_asked[Len(out.session.questions_asked)]
                       .question.source = "fallback"

\* C21: when the memory store is unavailable or raises while facts are
\* persisted or context is retrieved, the store call yields zero fact ids
\* and the lookup an empty context, and the turn proceeds exactly as with a
\* working store: the same answer is recorded, the same profile update is
\* made and the same next question is recorded.
C21_MemoryFailureIgnored ==
    (HasSession /\ current_session.phase # "ended") =>
        \A answer_short \in BOOLEAN :
        \A areply \in AnalyzerRepliesFor(answer_short, llm_server),
           qreply \in QuestionReplies(llm_server) :
            LET ref == process_text_response(current_session, answer_short,
                                             areply, qreply, now, "ok")
            IN \A memory \in MemoryOutcomes \ {"ok"} :
            LET out == process_text_response(current_session, answer_short,
                                             areply, qreply, now, memory)
            IN /\ out.facts_stored = 0
               /\ get_relevant_context_for_question(memory) = ""
               /\ out.session = ref.session
               /\ out.kind = ref.kind
               /\ out.generator = ref.generator
               /\ out.kind = "ok" =>
                    /\ Len(out.session.answers_received)
                         = Len(current_session.answers_received) + 1
                    /\ Len(out.session.questions_asked)
                         = Len(current_session.questions_asked) + 1

\* after a completed turn, a further turn whose facts a working store would
\* keep and a failing store loses
C21_Witness ==
    /\ HasSession
    /\ response.kind = "ok"
    /\ current_session.answers_received # <<>>
    /\ current_session.phase # "ended"
    /\ \E areply \in AnalyzerReplies(llm_server), qreply \in QuestionReplies(llm_server) :
          /\ process_text_response(current_session, FALSE, areply, qreply, now,
                                   "ok").facts_stored > 0
          /\ process_text_response(current_session, FALSE, areply, qreply, now,
                                   "raises").kind = "ok"

\* C22: a submit-answer request (text or audio) on an active session that has
\* not ended never produces a response carrying an error because the
\* generator, the analyzer, the transcriber or the memory store failed; the
\* only error it can return is the HTTP 400 for an upload that is not audio.
C22_FailuresDegrade ==
    [][(/\ HasSession /\ current_session.phase # "ended"
        /\ (TextResponse \/ InterviewResponse))
        => response'.kind \in {"ok", "interview_ended", "clarification", "http_400"}]_vars

\* C23: when the transcription of an upload is empty or has fewer than two
\* words, the caller receives the clarification response and the attempt is
\* recorded in the session as an answer analysed with the default analysis.
C23_UnclearRecorded ==
    [][(/\ HasSession /\ current_session.phase # "ended"
        /\ InterviewResponse /\ response'.kind = "clarification")
        => /\ Len(current_session'.answers_received)
                = Len(current_session.answers_received) + 1
           /\ current_session'.answers_received[Len(current_session'.answers_received)]
                .analysis = get_default_analysis]_vars

C25_TranscriptPairs ==
    [][(/\ HasSession /\ current_session.answers_received # <<>>
        /\ GetInterviewReport)
        => /\ response'.kind = "report"
           /\ LET transcript == qa_transcript(current_session)
                  questions == current_session.questions_asked
                  answers == current_session.answers_received
              IN /\ Len(transcript) = Len(questions)
                 /\ \A i \in 1..Len(transcript) :
                      /\ transcript[i].question = questions[i].question
                      /\ transcript[i].phase = questions[i].phase
                      /\ i <= Len(answers) =>
                            /\ transcript[i].answer.present
                            /\ transcript[i].answer.record = answers[i]
                      /\ i > Len(answers) =>
                            /\ ~transcript[i].answer.present
                            /\ i = Len(transcript)]_vars

\* the replies that leave the report agent without a usable summary
C26_FailedReplies ==
    {[kind |-> "transport_failure"], [kind |-> "not_json"], [kind |-> "no_braces"]}

\* the mean over the answers of the weighted score of each answer in the
\* phase it was given in, on the 1..10 scale and in hundredths, rounded down
OverallWeighted(s) ==
    LET WeightedSum[i \in 0..Len(s.answers_received)] ==
            IF i = 0 THEN 0
            ELSE WeightedSum[i - 1]
                   + calculate_weighted_score(s.answers_received[i].analysis,
                                              s.answers_received[i].phase)
    IN WeightedSum[Len(s.answers_received)] \div Len(s.answers_received)

\* C26: when the report-summary generator fails or returns unparseable
\* output, the assessment generated for a session with answers is the
\* templated one and its recommendation is recommend(x) of the session's
\* overall weighted score x.
C26_TemplatedRecommendation ==
    (HasSession /\ current_session.answers_received # <<>>) =>
        \A reply \in C26_FailedReplies :
            LET assessment == generate_report(AllAnalyses(current_session), reply)
            IN /\ assessment.source = "template"
               /\ assessment.recommendation
                    = get_recommendation(OverallWeighted(current_session))

\* C27: the successor function is defined for each of the seven phases: it
\* follows the fixed order, gives ENDED for CLOSING and ENDED for ENDED, and
\* is never absent.
C27_NextTotal ==
    \A i \in 1..(Len(walk) - 1) :
        /\ walk[i] \in InterviewPhase => walk[i + 1] \in InterviewPhase
        /\ walk[i] = "closing" => walk[i + 1] = "ended"
        /\ walk[i] = "ended" => walk[i + 1] = "ended"

\* C28: immediately after start-interview the active session is a fresh
\* one, in GREETING, with exactly one question record tagged GREETING, one
\* conversation turn of the interviewer, no answer record and
\* difficulty_level 3, whatever session existed before and whatever the
\* generator replied.
C28_FreshAfterStart ==
    [][StartInterview =>
        /\ response'.kind = "ok"
        /\ current_session'.session_id # 0
        /\ current_session'.session_id # current_session.session_id
        /\ current_session'.phase = "greeting"
        /\ Len(current_session'.questions_asked) = 1
        /\ current_session'.questions_asked[1].phase = "greeting"
        /\ Len(current_session'.conversation_history) = 1
        /\ current_session'.conversation_history[1].role = "interviewer"
        /\ current_session'.answers_received = <<>>
        /\ current_session'.difficulty_level = 3
        /\ current_session'.red_flags = <<>>
        /\ current_session'.candidate_profile = NewProfile]_vars

\* a session started over an earlier one, its greeting taken from the
\* fallback bank
C28_Witness ==
    /\ current_session.session_id = 2
    /\ response.kind = "ok"
    /\ current_session.answers_received = <<>>
    /\ Len(current_session.questions_asked) = 1
    /\ current_session.questions_asked[1].question.source = "fallback"

(***************************************************************************)
(* LLM client: LLMClient._make_request and LLMClient.generate, one call.   *)
(* attempts is the list of the outcomes of the HTTP requests made so far,  *)
(* so the loop variable attempt of the code is Len(attempts); slept is the *)
(* time spent in time.sleep, in half seconds.                              *)
(***************************************************************************)
\* what one requests.post ... response.json() can do: raise Timeout, raise
\* another RequestException, return a body with or without content, or
\* raise an exception that is not a RequestException
AttemptOutcomes ==
    {"timeout", "request_exception", "content", "empty_content", "other_exception"}

RangeEnd_OneMore(retries) == retries + 2

\* range(self.max_retries + 1)
RangeEnd(retries) == retries + 1

\* the time.sleep of the except branches
Backoff(attempt, retries, outcome) ==
    IF attempt < retries
    THEN IF outcome = "timeout" THEN 2 * (attempt + 1) ELSE attempt + 1
    ELSE 0

RetryInit ==
    /\ max_retries \in 0..MaxRetries
    /\ attempts = <<>>
    /\ rPc = "loop"
    /\ slept = 0
    /\ llm_response = [status |-> "unset"]
    /\ PolicyIdle /\ ScoreIdle /\ AnalyzeIdle /\ SessionIdle
    /\ AppIdle /\ ExtractIdle /\ TurnsIdle /\ RaceIdle /\ CleanIdle

\* one iteration of the for loop of _make_request
RequestAttempt ==
    /\ rPc = "loop"
    /\ Len(attempts) < RangeEnd(max_retries)
    /\ \E outcome \in AttemptOutcomes :
        /\ attempts' = Append(attempts, outcome)
        /\ IF outcome \in {"content", "empty_content"}
           THEN rPc' = "returned" /\ slept' = slept
           ELSE IF outcome \in {"timeout", "request_exception"}
           THEN /\ rPc' = "loop"
                /\ slept' = slept + Backoff(Len(attempts), max_retries, outcome)
           ELSE rPc' = "propagated" /\ slept' = slept
    /\ UNCHANGED <<max_retries, llm_response,
                   policyVars, scoreVars, analyzeVars, sessionVars,
                   appVars, extractVars, turnVars, raceVars, cleanVars>>

\* the loop is over: raise ConnectionError
LoopExhausted ==
    /\ rPc = "loop"
    /\ ~(Len(attempts) < RangeEnd(max_retries))
    /\ rPc' = "connection_error"
    /\ UNCHANGED <<max_retries, attempts, slept, llm_response,
                   policyVars, scoreVars, analyzeVars, sessionVars,
                   appVars, extractVars, turnVars, raceVars, cleanVars>>

\* LLMClient.generate builds the LLMResponse from the body or, in its
\* except Exception branch, from the exception
GenerateReturn ==
    /\ rPc \in {"returned", "connection_error", "propagated"}
    /\ llm_response' =
          [status |-> "returned",
           is_valid |-> rPc = "returned" /\ attempts[Len(attempts)] = "content"]
    /\ rPc' = "done"
    /\ UNCHANGED <<max_retries, attempts, slept,
                   policyVars, scoreVars, analyzeVars, sessionVars,
                   appVars, extractVars, turnVars, raceVars, cleanVars>>

RetryNext == RequestAttempt \/ LoopExhausted \/ GenerateReturn

\* the call runs on one thread: a step that can be taken is taken
SpecRetry == RetryInit /\ [][RetryNext]_vars /\ WF_vars(RetryNext)

\* C29: one call of the text generator makes at most max_retries + 1 request
\* attempts, makes no attempt after the first one that succeeds, and after
\* the last failed attempt it terminates, returning a response with
\* is_valid = false instead of retrying again or raising.
C29_BoundedRetry ==
    /\ [](/\ Len(attempts) <= max_retries + 1
          /\ \A i \in 1..(Len(attempts) - 1) :
                attempts[i] \in {"timeout", "request_exception"}
          /\ rPc = "done" =>
                /\ llm_response.status = "returned"
                /\ llm_response.is_valid
                     = (attempts # <<>> /\ attempts[Len(attempts)] = "content"))
    /\ <>(rPc = "done")

\* a call whose four attempts all failed
C29_Witness ==
    /\ rPc = "done"
    /\ max_retries = 3
    /\ Len(attempts) = 4
    /\ attempts[4] = "timeout"
    /\ ~llm_response.is_valid
    /\ slept = 9

\* the red flags (or positive signs) reported by the answers of a session,
\* one after the other
ReportedBy(answers, field) ==
    LET Reported[i \in 0..Len(answers)] ==
            IF i = 0 THEN <<>>
            ELSE Reported[i - 1] \o answers[i].analysis[field]
    IN Reported[Len(answers)]

\* C30: the session stores the red flags and the positive signs of every
\* answer as reported, without deduplication: a string reported by k answers
\* is stored k times.  Duplicates are removed, by exact string, only in the
\* lists derived from the session for a report (observations) and for
\* serialization (to_session), which leave the stored lists as they are.
C30_FlagsKeptWithDuplicates ==
    HasSession =>
        /\ current_session.red_flags
             = ReportedBy(current_session.answers_received, "red_flags")
        /\ current_session.positive_signs
             = ReportedBy(current_session.answers_received, "positive_signs")
        /\ observations(current_session).red_flags
             = {current_session.red_flags[i] : i \in DOMAIN current_session.red_flags}
        /\ observations(current_session).positive_signs
             = {current_session.positive_signs[i] :
                    i \in DOMAIN current_session.positive_signs}
        /\ to_session(current_session).red_flags
             = observations(current_session).red_flags
        /\ to_session(current_session).positive_signs
             = observations(current_session).positive_signs

\* two answers reported the same red flag and the same positive sign
C30_Witness ==
    /\ HasSession
    /\ current_session.red_flags = <<"overconfident", "overconfident">>
    /\ current_session.positive_signs = <<"concrete examples", "concrete examples">>
    /\ Cardinality(observations(current_session).red_flags) = 1

(***************************************************************************)
(* Single-file implementation: backend/app.py                              *)
(*                                                                         *)
(* A Python value whose type matters to == is a record of its type and its *)
(* payload: a str never equals a member of the plain Enum InterviewPhase.  *)
(***************************************************************************)
PyStr(v) == [type |-> "str", value |-> v]
Member(v) == [type |-> "InterviewPhase", value |-> v]

\* Python's ==
PyEq(a, b) == a = b

PHASE_CONFIG ==
    [p \in {"greeting", "introduction", "technical", "behavioral", "situational", "closing"} |->
        CASE p = "greeting"     -> [min_questions |-> 1, max_questions |-> 2,  time_limit |-> 2]
          [] p = "introduction" -> [min_questions |-> 3, max_questions |-> 5,  time_limit |-> 5]
          [] p = "technical"    -> [min_questions |-> 5, max_questions |-> 10, time_limit |-> 20]
          [] p = "behavioral"   -> [min_questions |-> 3, max_questions |-> 6,  time_limit |-> 10]
          [] p = "situational"  -> [min_questions |-> 2, max_questions |-> 4,  time_limit |-> 8]
          [] p = "closing"      -> [min_questions |-> 1, max_questions |-> 3,  time_limit |-> 3]]

\* InterviewState(): questions_asked holds the "phase" entry of each
\* question dict, answers_received and the technologies of the profile are
\* kept as their lengths
InterviewState ==
    [phase |-> Member("greeting"), questions_asked |-> <<>>, answers_received |-> 0,
     technologies |-> 0, phase_start_time |-> NoTime]

\* sum(1 for q in questions_asked if q.get("phase") == interview_state.phase)
phase_questions(st) ==
    Cardinality({i \in DOMAIN st.questions_asked : PyEq(st.questions_asked[i], st.phase)})

app_should_transition_phase(st, clock) ==
    IF st.phase = Member("ended") THEN FALSE
    ELSE LET phase_config == PHASE_CONFIG[st.phase.value]
             n == phase_questions(st)
         IN /\ n >= phase_config.min_questions
            /\ \/ /\ st.phase_start_time # NoTime
                  /\ clock - st.phase_start_time >= phase_config.time_limit
               \/ n >= phase_config.max_questions
               \/ /\ st.phase = Member("technical")
                  /\ st.technologies >= 3
                  /\ n >= 4

\* the new state and the returned flag
app_transition_to_next_phase(st, clock) ==
    IF PhaseIndex(st.phase.value) < Len(PHASE_ORDER) - 1
    THEN [returned |-> TRUE,
          state |-> [st EXCEPT !.phase = Member(PHASE_ORDER[PhaseIndex(@.value) + 1]),
                               !.phase_start_time = clock]]
    ELSE [returned |-> FALSE, state |-> [st EXCEPT !.phase = Member("ended")]]

\* questions_asked.append({..., "phase": interview_state.phase.value, ...})
append_question(st) ==
    [st EXCEPT !.questions_asked = Append(@, PyStr(st.phase.value))]

\* the body of interview_response / text_interview_response after the
\* ENDED test
app_turn(st, new_technology, clock) ==
    LET answered == [st EXCEPT !.answers_received = @ + 1,
                               !.technologies = IF new_technology THEN @ + 1 ELSE @]
    IN IF app_should_transition_phase(answered, clock)
       THEN LET moved == app_transition_to_next_phase(answered, clock)
            IN IF moved.returned THEN append_question(moved.state) ELSE moved.state
       ELSE append_question(answered)

AppInit ==
    /\ interview_state = InterviewState
    /\ app_now = 0
    /\ PolicyIdle /\ ScoreIdle /\ AnalyzeIdle /\ SessionIdle /\ RetryIdle
    /\ ExtractIdle /\ TurnsIdle /\ RaceIdle /\ CleanIdle

AppTick ==
    /\ app_now < MaxTime
    /\ app_now' = app_now + 1
    /\ UNCHANGED <<interview_state, policyVars, scoreVars, analyzeVars, sessionVars,
                   retryVars, extractVars, turnVars, raceVars, cleanVars>>

\* POST /start-interview
AppStartInterview ==
    /\ interview_state' =
           append_question([InterviewState EXCEPT !.phase_start_time = app_now])
    /\ UNCHANGED <<app_now, policyVars, scoreVars, analyzeVars, sessionVars,
                   retryVars, extractVars, turnVars, raceVars, cleanVars>>

\* POST /interview-response and POST /text-response
AppInterviewResponse ==
    /\ interview_state.answers_received < MaxAppTurns
    /\ IF interview_state.phase = Member("ended")
       THEN UNCHANGED interview_state
       ELSE \E new_technology \in BOOLEAN :
                interview_state' = app_turn(interview_state, new_technology, app_now)
    /\ UNCHANGED <<app_now, policyVars, scoreVars, analyzeVars, sessionVars,
                   retryVars, extractVars, turnVars, raceVars, cleanVars>>

\* POST /end-interview
AppEndInterview ==
    /\ interview_state' = [interview_state EXCEPT !.phase = Member("ended")]
    /\ UNCHANGED <<app_now, policyVars, scoreVars, analyzeVars, sessionVars,
                   retryVars, extractVars, turnVars, raceVars, cleanVars>>

AppNext ==
    \/ AppTick
    \/ AppStartInterview
    \/ AppInterviewResponse
    \/ AppEndInterview

SpecApp == AppInit /\ [][AppNext]_vars

\* questions asked while the interview was in its present phase
AskedInPhase(st) ==
    Cardinality({i \in DOMAIN st.questions_asked :
                    st.questions_asked[i].value = st.phase.value})

\* C31: in the single-file implementation should_transition_phase is true
\* once the number of questions asked in the current phase has reached the
\* phase's max_questions.
C31_MaxForcesTransition ==
    (interview_state.phase # Member("ended")
        /\ AskedInPhase(interview_state)
               >= PHASE_CONFIG[interview_state.phase.value].max_questions)
    => app_should_transition_phase(interview_state, app_now)

(***************************************************************************)
(* Behavioral facts: backend/memory/extractors.py                          *)
(*                                                                         *)
(* An answer is the set of lexicon words that occur in its lower-cased     *)
(* text (Python's `word in answer.lower()`, a substring test).             *)
(***************************************************************************)
leadership_words == <<"led", "managed", "coordinated", "organized", "mentored">>
problem_words == <<"solved", "fixed", "resolved", "debugged", "figured out", "analyzed">>
team_words == <<"team", "collaborated", "together", "group", "colleagues">>

BehaviorCategories == <<"leadership_indicator", "problem_solving_indicator", "teamwork_indicator">>

WordsOf(category) ==
    CASE category = "leadership_indicator"      -> leadership_words
      [] category = "problem_solving_indicator" -> problem_words
      [] category = "teamwork_indicator"        -> team_words

Range(seq) == {seq[i] : i \in DOMAIN seq}

\* a text with "resolved" in it has "solved" in it; no other lexicon word
\* is a substring of another
SubstringClosed(contained) == "resolved" \in contained => "solved" \in contained

\* the facts of one `for word in words: if word in answer.lower(): ... break`
FirstMatch(category, contained, phase) ==
    LET words == WordsOf(category)
        hits == {i \in DOMAIN words : words[i] \in contained}
    IN IF hits = {} THEN <<>>
       ELSE LET first == CHOOSE i \in hits : \A j \in hits : i <= j
            IN <<[type |-> "behavior", category |-> category, word |-> words[first],
                  source_phase |-> phase]>>

RECURSIVE EveryMatch(_, _, _, _)
EveryMatch(category, contained, phase, i) ==
    IF i > Len(WordsOf(category)) THEN <<>>
    ELSE (IF WordsOf(category)[i] \in contained
          THEN <<[type |-> "behavior", category |-> category, word |-> WordsOf(category)[i],
                  source_phase |-> phase]>>
          ELSE <<>>) \o EveryMatch(category, contained, phase, i + 1)

extract_behaviors_NoBreak(contained, phase) ==
    EveryMatch("leadership_indicator", contained, phase, 1)
      \o EveryMatch("problem_solving_indicator", contained, phase, 1)
      \o EveryMatch("teamwork_indicator", contained, phase, 1)

\* FactExtractor._extract_behaviors
extract_behaviors(contained, phase) ==
    FirstMatch("leadership_indicator", contained, phase)
      \o FirstMatch("problem_solving_indicator", contained, phase)
      \o FirstMatch("teamwork_indicator", contained, phase)

\* `phase in [...]` for a member of models.schemas.InterviewPhase: the
\* member equals its string value
PhaseIn(phase, values) == phase \in values

\* FactExtractor.extract_facts, the behavioral facts of the returned list
extract_behavior_facts(phase, contained) ==
    IF PhaseIn(phase, {"behavioral", "situational"})
    THEN extract_behaviors(contained, phase)
    ELSE <<>>

\* the answers tried: at most MaxHits words of each lexicon
HitSets(words) == {h \in SUBSET Range(words) : Cardinality(h) <= MaxHits}

ExtractInputs ==
    {[phase |-> phase, contained |-> l \cup p \cup t] :
        phase \in InterviewPhase \ {"ended"},
        l \in HitSets(leadership_words),
        p \in {h \in HitSets(problem_words) : SubstringClosed(h)},
        t \in HitSets(team_words)}

ExtractInit ==
    /\ eInput \in ExtractInputs
    /\ eFacts = [status |-> "unset"]
    /\ PolicyIdle /\ ScoreIdle /\ AnalyzeIdle /\ SessionIdle /\ RetryIdle
    /\ AppIdle /\ TurnsIdle /\ RaceIdle /\ CleanIdle

\* AgentController.process_answer, step 2: fact_extractor.extract_facts(phase, ...)
ExtractFacts ==
    /\ eFacts.status = "unset"
    /\ eFacts' = [status |-> "returned",
                  facts |-> extract_behavior_facts(eInput.phase, eInput.contained)]
    /\ UNCHANGED <<eInput, policyVars, scoreVars, analyzeVars, sessionVars,
                   retryVars, appVars, turnVars, raceVars, cleanVars>>

ExtractNext == ExtractFacts

SpecExtract == ExtractInit /\ [][ExtractNext]_vars

FactsOf(facts, category) == {i \in DOMAIN facts : facts[i].category = category}

\* C32: the facts extracted during a turn hold a behavioral fact of a
\* category (leadership, problem solving, teamwork) exactly when the phase
\* is BEHAVIORAL or SITUATIONAL and the answer contains a word of that
\* category's lexicon, and then exactly one; in every other phase they hold
\* no behavioral fact.
C32_BehaviorFacts ==
    eFacts.status = "returned" =>
        \A k \in DOMAIN BehaviorCategories :
            LET category == BehaviorCategories[k]
                expected == IF /\ eInput.phase \in {"behavioral", "situational"}
                               /\ eInput.contained \cap Range(WordsOf(category)) # {}
                            THEN 1 ELSE 0
            IN /\ Cardinality(FactsOf(eFacts.facts, category)) = expected
               /\ \A i \in FactsOf(eFacts.facts, category) :
                      eFacts.facts[i].word \in eInput.contained

C32_Witness ==
    /\ eFacts.status = "returned"
    /\ eInput.phase = "situational"
    /\ {"managed", "mentored", "resolved", "solved"} \subseteq eInput.contained
    /\ Len(eFacts.facts) = 2

(***************************************************************************)
(* Whole interviews: backend/main.py, backend/interview/state.py           *)
(*                                                                         *)
(* The session is cut down to what the transition policy reads, so that    *)
(* interviews of full length can be explored for every sequence of scores: *)
(* the phase, the number of QuestionRecords tagged with each phase, the    *)
(* number of AnswerRecords and the analyses of the last three answers.     *)
(* The time elapsed in the phase is 0 or the phase's time limit, the two   *)
(* cases should_transition tells apart.                                    *)
(***************************************************************************)
AskablePhases == DOMAIN PHASES

\* the analyses tried: quality, relevance and completeness all equal
TurnScores == {2, 6, 9}

TurnAnalysis(v) == [quality_score |-> v, relevance_score |-> v, completeness_score |-> v]

\* start_interview: a new session with its greeting question
StartedSession ==
    [phase |-> "greeting",
     asked |-> [p \in AskablePhases |-> IF p = "greeting" THEN 1 ELSE 0],
     answers |-> 0,
     recent |-> <<>>]

\* _process_text_response up to the question generator: add_answer,
\* should_transition_phase, transition_to_next_phase
recorded_answer(t, analysis, elapsed) ==
    LET recent == LastThree(Append(t.recent, [analysis |-> analysis]))
        fire == /\ t.phase # "ended"
                /\ should_transition(t.phase, t.asked[t.phase], elapsed,
                                     RecentPerformance([answers_received |-> recent]))
        next_phase == get_next_phase(t.phase)
        answered == [t EXCEPT !.answers = @ + 1, !.recent = recent]
    IN IF fire /\ (next_phase = NonePhase \/ next_phase = "ended")
       THEN [answered EXCEPT !.phase = "ended"]
       ELSE IF fire THEN [answered EXCEPT !.phase = next_phase]
       ELSE answered

\* _process_text_response: unless the turn has ended the interview, the
\* next question is generated and recorded
answered_turn(t, analysis, elapsed) ==
    LET u == recorded_answer(t, analysis, elapsed)
    IN IF u.phase = "ended" THEN u ELSE [u EXCEPT !.asked[u.phase] = @ + 1]

TurnsInit ==
    /\ tSession = [phase |-> "none"]
    /\ tElapsed = 0
    /\ PolicyIdle /\ ScoreIdle /\ AnalyzeIdle /\ SessionIdle /\ RetryIdle
    /\ AppIdle /\ ExtractIdle /\ RaceIdle /\ CleanIdle

\* POST /start-interview
TurnsStart ==
    /\ tSession.phase = "none"
    /\ tSession' = StartedSession
    /\ tElapsed' = 0
    /\ UNCHANGED <<policyVars, scoreVars, analyzeVars, sessionVars, retryVars,
                   appVars, extractVars, raceVars, cleanVars>>

\* the time limit of the phase goes by
TurnsTick ==
    /\ tSession.phase \in AskablePhases
    /\ tElapsed < PHASES[tSession.phase].time_limit
    /\ tElapsed' = PHASES[tSession.phase].time_limit
    /\ UNCHANGED <<tSession, policyVars, scoreVars, analyzeVars, sessionVars, retryVars,
                   appVars, extractVars, raceVars, cleanVars>>

\* POST /text-response or /interview-response with an answer that is recorded
TurnsAnswer ==
    /\ tSession.phase \in AskablePhases
    /\ \E v \in TurnScores :
           tSession' = answered_turn(tSession, TurnAnalysis(v), tElapsed)
    /\ tElapsed' = IF tSession'.phase # tSession.phase THEN 0 ELSE tElapsed
    /\ UNCHANGED <<policyVars, scoreVars, analyzeVars, sessionVars, retryVars,
                   appVars, extractVars, raceVars, cleanVars>>

TurnsNext ==
    \/ TurnsStart
    \/ TurnsTick
    \/ TurnsAnswer

SpecTurns == TurnsInit /\ [][TurnsNext]_vars

\* C33: in every state reached by start-interview and submit-answer turns,
\* the number of QuestionRecords tagged with a phase is at most that phase's
\* max_questions.
C33_QuestionsAtMostMax ==
    tSession.phase # "none" =>
        \A p \in AskablePhases : tSession.asked[p] <= PHASES[p].max_questions

C33_Witness ==
    /\ tSession.phase = "ended"
    /\ \A p \in AskablePhases : tSession.asked[p] = PHASES[p].max_questions

\* C34: a submit-answer turn moves the session out of a phase only when at
\* least min_questions QuestionRecords tagged with that phase have been
\* recorded, whatever the elapsed time and the scores.
C34_LeavesAfterMin ==
    [][(tSession.phase \in AskablePhases /\ tSession'.phase # tSession.phase)
          => tSession.asked[tSession.phase] >= PHASES[tSession.phase].min_questions]_vars

\* every phase was left with exactly its min_questions
C34_Witness ==
    /\ tSession.phase = "ended"
    /\ \A p \in AskablePhases : tSession.asked[p] = PHASES[p].min_questions

RECURSIVE SumMaxQuestions(_)
SumMaxQuestions(i) ==
    IF i > Len(PHASE_ORDER) THEN 0
    ELSE PHASES[PHASE_ORDER[i]].max_questions + SumMaxQuestions(i + 1)

\* 2 + 5 + 10 + 6 + 4 + 3
TurnLimit == SumMaxQuestions(1)

\* a turn whose analysis left an item that is not a string among the skills
\* of the profile: the answer is recorded and the question generator raises
failed_turn(t, analysis, elapsed) == recorded_answer(t, analysis, elapsed)

\* n such turns in a row, with middle scores and no time going by
RECURSIVE FailedTurns(_, _)
FailedTurns(t, n) ==
    IF n = 0 \/ t.phase = "ended" THEN t
    ELSE FailedTurns(failed_turn(t, TurnAnalysis(6), 0), n - 1)

WithinLimit(t) ==
    /\ t.answers <= 30
    /\ t.answers <= TurnLimit
    /\ t.answers = TurnLimit => t.phase = "ended"

\* C36: an interview driven by submit-answer turns terminates: the number of
\* answered turns never exceeds 30 and the phase is ENDED once 30 turns have
\* been answered, whatever the analyses, the generator outcomes and the
\* elapsed times of the turns so far and of the turns that follow.
C36_EndsWithinLimit ==
    tSession.phase # "none" =>
        /\ WithinLimit(tSession)
        /\ \A n \in 1..MaxFailedTurns : WithinLimit(FailedTurns(tSession, n))

\* an analysis whose extracted skills hold an item that is not a string
NonStrSkillReply ==
    [kind |-> "json_object",
     dict |-> ScoredDict(Raw("int", 6), [HighInfo EXCEPT !.skills = <<NonStrItem>>],
                         <<>>, <<>>)]

OneOpenQuestion(s) ==
    LET open == Len(s.questions_asked) - Len(s.answers_received)
    IN /\ open \in {0, 1}
       /\ s.phase # "ended" => open = 1

\* C35: between operations the session holds as many QuestionRecords as
\* AnswerRecords or one more, and exactly one more while the phase is not
\* ENDED; this holds of the session and of the session after one more
\* submit-answer turn, whatever analysis the LLM server returns.
C35_OneOpenQuestion ==
    HasSession =>
        /\ OneOpenQuestion(current_session)
        /\ (current_session.phase # "ended" /\ llm_server = "up") =>
              \A qreply \in QuestionReplies(llm_server), memory \in MemoryOutcomes :
                  OneOpenQuestion(
                      process_text_response(current_session, FALSE, NonStrSkillReply,
                                            qreply, now, memory).session)

(***************************************************************************)
(* Concurrent requests: backend/main.py                                    *)
(*                                                                         *)
(* interview_response takes the session and tests its phase, is suspended  *)
(* at `await file.read()` while other requests run on the event loop, and  *)
(* then transcribes the upload and runs the turn on the session it took.   *)
(***************************************************************************)
\* interview_response up to `await file.read()`
AudioBegin ==
    /\ audio_request.pc = "idle"
    /\ IF ~HasSession
       THEN /\ response' = [kind |-> "http_400"]
            /\ UNCHANGED audio_request
       ELSE IF current_session.phase = "ended"
       THEN /\ response' = [kind |-> "rejected_ended"]
            /\ UNCHANGED audio_request
       ELSE \E content_type_ok \in BOOLEAN :
            IF ~content_type_ok
            THEN /\ response' = [kind |-> "http_400"]
                 /\ UNCHANGED audio_request
            ELSE /\ audio_request' = [pc |-> "reading",
                                      session_id |-> current_session.session_id]
                 /\ UNCHANGED response
    /\ UNCHANGED <<current_session, now, llm_server,
                   policyVars, scoreVars, analyzeVars, retryVars,
                   appVars, extractVars, turnVars, cleanVars>>

\* interview_response from `await file.read()` on; a turn on a session that
\* start-interview has replaced meanwhile changes the replaced object only
AudioResume ==
    /\ audio_request.pc = "reading"
    /\ audio_request' = [pc |-> "idle"]
    /\ \E upload \in {"transcription_raises", "unclear", "text"} :
         IF upload = "transcription_raises"
         THEN /\ response' = [kind |-> "transcription_failed"]
              /\ UNCHANGED current_session
         ELSE IF upload = "unclear"
         THEN /\ response' = [kind |-> "clarification"]
              /\ UNCHANGED current_session
         ELSE IF audio_request.session_id # current_session.session_id
         THEN /\ response' = [kind |-> "ok"]
              /\ UNCHANGED current_session
         ELSE /\ TurnAllowed
              /\ \E answer_short \in BOOLEAN :
                 \E areply \in AnalyzerRepliesFor(answer_short, llm_server),
                    qreply \in QuestionReplies(llm_server),
                    memory \in MemoryOutcomes :
                  LET out == process_text_response(current_session, answer_short,
                                                   areply, qreply, now, memory)
                  IN /\ current_session' = out.session
                     /\ response' = [kind |-> out.kind]
    /\ UNCHANGED <<now, llm_server, policyVars, scoreVars, analyzeVars, retryVars,
                   appVars, extractVars, turnVars, cleanVars>>

RaceInit == SessionInit

RaceNext ==
    \/ StartInterview
    \/ TextResponse
    \/ EndInterview
    \/ AudioBegin
    \/ AudioResume

SpecRace == RaceInit /\ [][RaceNext]_vars

\* C37: under every interleaving of an audio submit-answer request with an
\* end-interview request or a turn that ends the interview, no AnswerRecord,
\* QuestionRecord or conversation turn is appended to a session whose phase
\* is ENDED.
C37_NothingAppendedWhenEnded ==
    [][(/\ HasSession
        /\ current_session.phase = "ended"
        /\ current_session'.session_id = current_session.session_id)
       => /\ current_session'.answers_received = current_session.answers_received
          /\ current_session'.questions_asked = current_session.questions_asked
          /\ current_session'.conversation_history
                = current_session.conversation_history]_vars

\* the step is a turn that recorded an answer with the default analysis
DefaultAnalysisTurn ==
    /\ HasSession
    /\ current_session'.session_id = current_session.session_id
    /\ Len(current_session'.answers_received) = Len(current_session.answers_received) + 1
    /\ current_session'.answers_received[Len(current_session'.answers_received)].analysis
          = get_default_analysis

\* C38: a turn in which the default analysis is substituted leaves the
\* candidate profile, the difficulty level, the red flags and the positive
\* signs unchanged.
C38_DefaultTurnFrame ==
    [][DefaultAnalysisTurn =>
          /\ current_session'.candidate_profile = current_session.candidate_profile
          /\ current_session'.difficulty_level = current_session.difficulty_level
          /\ current_session'.red_flags = current_session.red_flags
          /\ current_session'.positive_signs = current_session.positive_signs]_vars

\* after an analysed answer that changed the profile and raised the
\* difficulty, a turn with the default analysis was recorded
C38_Witness ==
    /\ HasSession
    /\ Len(current_session.answers_received) = 2
    /\ current_session.answers_received[1].analysis.quality_score = 9
    /\ current_session.answers_received[2].analysis = get_default_analysis
    /\ current_session.candidate_profile.skills # <<>>
    /\ current_session.difficulty_level = 4
    /\ current_session.red_flags # <<>>

(***************************************************************************)
(* The cleaning pipeline: backend/utils/cleaning.py (ResponseCleaner).     *)
(*                                                                         *)
(* A text is a sequence of one-character strings.  The texts drawn are an  *)
(* opening (none, or the words of Opening) followed by up to MaxTail       *)
(* characters of TailChars, all lower case.  What the pipeline's regular   *)
(* expressions do is modelled for every text over these characters:        *)
(*   - step 1 and the second substitution of step 2 need the letters of    *)
(*     "think", step 5 needs one of ( [ * : none can be spelled;           *)
(*   - step 2 leaves none of h t i n k < > in the text, so of the          *)
(*     interview starters of step 3 only "Welcome", "Could you" and        *)
(*     "Would you" can still be found, of the reasoning patterns of step 4 *)
(*     only the alternative "so", of the question words only "could" and   *)
(*     "would", and none of the bad_indicators; "welcome", "could" and     *)
(*     "would" cannot be spelled with the characters drawn.                *)
(***************************************************************************)
Opening ==
    <<"a", "l", "l", " ", "o", "u", "r", " ",
      "v", "o", "c", "a", "b", "u", "l", "a", "r", "y">>
TailChars == {"a", "t", "s", "o", "<", " ", "?"}
LetterChars == {"a", "b", "c", "l", "o", "r", "s", "t", "u", "v", "y"}

RECURSIVE TextsOfLen(_)
TextsOfLen(n) ==
    IF n = 0 THEN {<<>>}
    ELSE {Append(w, c) : w \in TextsOfLen(n - 1), c \in TailChars}

CleanTexts ==
    {opening \o tail :
        opening \in {<<>>, Opening},
        tail \in UNION {TextsOfLen(n) : n \in 0..MaxTail}}

\* the pattern <?h?t?h?i?n?k?>? of step 2, one optional character each
ThinkPattern == <<"<", "h", "t", "h", "i", "n", "k", ">">>

\* where a match of ThinkPattern that starts at pos ends: every element is
\* optional and greedy, so it takes the next character when it is its own
RECURSIVE MatchEnd(_, _, _)
MatchEnd(text, pos, k) ==
    IF k > Len(ThinkPattern) THEN pos
    ELSE IF pos <= Len(text) /\ text[pos] = ThinkPattern[k]
         THEN MatchEnd(text, pos + 1, k + 1)
         ELSE MatchEnd(text, pos, k + 1)

\* re.sub(r'<?h?t?h?i?n?k?>?', '', cleaned): a non-empty match is deleted,
\* an empty match keeps the character and moves on
RECURSIVE remove_think_fragments(_, _)
remove_think_fragments(text, pos) ==
    IF pos > Len(text) THEN <<>>
    ELSE IF MatchEnd(text, pos, 1) > pos
         THEN remove_think_fragments(text, MatchEnd(text, pos, 1))
         ELSE <<text[pos]>> \o remove_think_fragments(text, pos + 1)

\* the first position past pos that holds no whitespace
RECURSIVE SkipSpaces(_, _)
SkipSpaces(text, pos) ==
    IF pos <= Len(text) /\ text[pos] = " " THEN SkipSpaces(text, pos + 1) ELSE pos

\* the positions at which "so" starts
SoAt(text) == {i \in 1..(Len(text) - 1) : text[i] = "s" /\ text[i + 1] = "o"}

\* step 4, r"^.*?(?:okay|alright|let me|so|now|first|then)\s*[,.]?\s*": the
\* text is cut up to and including the first "so", the whitespace after it,
\* one comma or full stop and the whitespace after that
remove_reasoning_lead(text) ==
    IF SoAt(text) = {} THEN text
    ELSE LET i == CHOOSE j \in SoAt(text) : \A k \in SoAt(text) : j <= k
             e1 == SkipSpaces(text, i + 2)
             e2 == IF e1 <= Len(text) /\ text[e1] \in {",", "."} THEN e1 + 1 ELSE e1
         IN SubSeq(text, SkipSpaces(text, e2), Len(text))

\* str.strip()
RECURSIVE strip(_)
strip(text) ==
    IF text = <<>> THEN text
    ELSE IF Head(text) = " " THEN strip(Tail(text))
    ELSE IF text[Len(text)] = " " THEN strip(SubSeq(text, 1, Len(text) - 1))
    ELSE text

\* step 6: re.sub(r'\s+', ' ', cleaned) and strip()
RECURSIVE collapse_spaces(_)
collapse_spaces(text) ==
    IF Len(text) < 2 THEN text
    ELSE IF text[1] = " " /\ text[2] = " " THEN collapse_spaces(Tail(text))
    ELSE <<text[1]>> \o collapse_spaces(Tail(text))

\* ResponseCleaner.aggressive_clean
aggressive_clean(text) ==
    IF text = <<>> THEN <<>>
    ELSE strip(collapse_spaces(remove_reasoning_lead(remove_think_fragments(text, 1))))

\* len(match.strip().split())
WordCount(text) ==
    Cardinality({i \in DOMAIN text :
                    text[i] # " " /\ (i = 1 \/ text[i - 1] = " ")})

\* ResponseCleaner.extract_first_question: the first match of [^.!?]*\? that
\* has at least three words, stripped; found is FALSE for None
RECURSIVE first_question(_, _, _)
first_question(text, start, pos) ==
    IF pos > Len(text) THEN [found |-> FALSE, text |-> <<>>]
    ELSE IF text[pos] = "?"
         THEN IF WordCount(SubSeq(text, start, pos)) >= 3
              THEN [found |-> TRUE, text |-> strip(SubSeq(text, start, pos))]
              ELSE first_question(text, pos + 1, pos + 1)
    ELSE IF text[pos] \in {".", "!"} THEN first_question(text, pos + 1, pos + 1)
    ELSE first_question(text, start, pos + 1)

extract_first_question(text) == first_question(text, 1, 1)

\* ResponseCleaner.is_valid_interviewer_response, on a text aggressive_clean
\* returned
is_valid_interviewer_response(text) == Len(text) >= 10

\* the end of clean_interviewer_response: final validation and punctuation
finish_cleaned(cleaned) ==
    IF Len(cleaned) < 10 THEN [text |-> <<>>, is_valid |-> FALSE]
    ELSE IF cleaned[Len(cleaned)] \in {"?", "!", "."}
         THEN [text |-> cleaned, is_valid |-> TRUE]
         ELSE [text |-> Append(cleaned, "."), is_valid |-> TRUE]

\* ResponseCleaner.clean_interviewer_response on a text: (cleaned, is_valid)
clean_interviewer_text(text) ==
    IF text = <<>> THEN [text |-> <<>>, is_valid |-> FALSE]
    ELSE IF is_valid_interviewer_response(aggressive_clean(text))
         THEN finish_cleaned(aggressive_clean(text))
    ELSE IF extract_first_question(text).found
         THEN finish_cleaned(aggressive_clean(extract_first_question(text).text))
    ELSE [text |-> <<>>, is_valid |-> FALSE]

CleanInit ==
    /\ cText \in CleanTexts
    /\ cResult = [status |-> "pending"]
    /\ PolicyIdle /\ ScoreIdle /\ AnalyzeIdle /\ SessionIdle /\ RetryIdle
    /\ AppIdle /\ ExtractIdle /\ TurnsIdle /\ RaceIdle

CleanText ==
    /\ cResult.status = "pending"
    /\ cResult' = [status |-> "done",
                   text |-> clean_interviewer_text(cText).text,
                   is_valid |-> clean_interviewer_text(cText).is_valid]
    /\ UNCHANGED <<cText, policyVars, scoreVars, analyzeVars, sessionVars, retryVars,
                   appVars, extractVars, turnVars, raceVars>>

CleanNext == CleanText

SpecClean == CleanInit /\ [][CleanNext]_vars

IsLetter(c) == c \in LetterChars
Letters(text) == SelectSeq(text, IsLetter)

\* the text holds no angle bracket (no think tag, whole or partial), no
\* bracket or star, and nowhere the letters "so" (no reasoning phrase)
PlainText(text) ==
    /\ \A i \in DOMAIN text : ~(text[i] \in {"<", ">", "(", ")", "[", "]", "*"})
    /\ SoAt(text) = {}

\* C39: for a text with no think tag, no parenthesised, bracketed or
\* starred span and no reasoning phrase, the cleaning pipeline returns the
\* text with every letter preserved in order.
C39_LettersPreserved ==
    (cResult.status = "done" /\ PlainText(cText))
        => Letters(cResult.text) = Letters(cText)

====
